---- MODULE Spec2Model ----
(***************************************************************************)
(* Model of the drug-safety MCP server: the tool dispatcher and its 17     *)
(* handlers (src/src/tools/handlers.ts), the call-tool request handler and *)
(* the HTTP endpoint (src/unnamed/part_002) and the bearer-token check     *)
(* (src/src/auth.ts).                                                      *)
(*                                                                         *)
(* An async handler is a coroutine.  Its position is the number of         *)
(* upstream responses it has received so far: a handler operator takes the *)
(* arguments and the responses received and yields the next step of the    *)
(* handler, a GET to issue, a value to return or an error to throw.        *)
(* Optional values are sequences: <<>> is undefined, <<v>> is the value v. *)
(* Message texts are sequences of words.                                   *)
(***************************************************************************)
EXTENDS Integers, Sequences, FiniteSets, TLC

VARIABLES
    calls,            \* tool invocations in flight, one per slot
    OPENFDA_API_KEY,  \* handlers.ts:19, <<>> is null
    env_key,          \* process.env.OPENFDA_API_KEY, <<>> when unset
    lookups,          \* number of secret-store lookups issued so far
    transports,       \* part_002:85, session id -> transport
    reqs,             \* HTTP requests in flight, one per slot
    oauth_enabled,    \* OAuthConfig.enabled, auth.ts:53
    sessions,         \* auth.ts:36, token -> validated session
    timers,           \* pending setTimeout callbacks of createSession
    now,              \* Date.now(), in units of half an hour
    eval,             \* the last value a formatter or the list handler produced
    limiter,          \* the rate limiter: maxRequests and requests
    checks,           \* the calls of limiter.check so far: client, time, result
    clock             \* Date.now() of the rate limiter, in units of 20 seconds

toolVars == <<calls, OPENFDA_API_KEY, env_key, lookups>>

httpVars == <<reqs, oauth_enabled, sessions, timers, now>>

fnVars == <<eval, limiter, checks, clock>>

vars == <<calls, OPENFDA_API_KEY, env_key, lookups, transports,
          reqs, oauth_enabled, sessions, timers, now, eval,
          limiter, checks, clock>>

\* ------------------------------------------------------------------ bounds

\* Tool invocations that can be in flight at the same time.
MaxInFlight == 2

\* HTTP requests that can be in flight at the same time.
MaxRequests == 2

\* The clock stops here.
MaxTime == 3

\* The largest limit a rate limiter is constructed with.
MaxLimit == 2

\* The calls of limiter.check in one behaviour.
MaxChecks == 5

\* The clock of the rate limiter stops here.
MaxClock == 4

\* The items of one count response that a formatter is given.
MaxItems == 3

\* ------------------------------------------------------------ JS helpers

Undefined == <<>>

Some(v) == <<v>>

\* JavaScript truthiness of an optional number: undefined and 0 are falsy.
TruthyNum(o) == o # <<>> /\ o[1] # 0

\* JavaScript truthiness of an optional string: undefined and "" are falsy.
TruthyStr(o) == o # <<>> /\ o[1] # ""

\* `x || d` on an optional number.
NumOr(o, d) == IF TruthyNum(o) THEN o[1] ELSE d

\* `x || d` on an optional string.
StrOr(o, d) == IF TruthyStr(o) THEN o[1] ELSE d

\* `x !== false` on an optional boolean.
NotFalse(o) == o # <<FALSE>>

MathMin(a, b) == IF a < b THEN a ELSE b

\* String.prototype.toLowerCase on the words the messages are made of.
ToLowerCase(w) ==
    CASE w = "Unknown"  -> "unknown"
      [] w = "Invalid"  -> "invalid"
      [] w = "Missing"  -> "missing"
      [] w = "Authorization" -> "authorization"
      [] w = "Token"    -> "token"
      [] w = "Gateway"  -> "gateway"
      [] w = "Authentication" -> "authentication"
      [] w = "Failed"   -> "failed"
      [] w = "FAERS"    -> "faers"
      [] w = "API"      -> "api"
      [] w = "Error"    -> "error"
      [] w = "Please"   -> "please"
      [] w = "Bearer"   -> "bearer"
      [] w = "BEARER"   -> "bearer"
      [] w = "Basic"    -> "basic"
      [] w = "OAuth"    -> "oauth"
      [] w = "Unexpected" -> "unexpected"
      [] w = "JSON"     -> "json"
      [] w = "ECONNREFUSED" -> "econnrefused"
      [] w = "NAUSEA"   -> "nausea"
      [] w = "Nausea"   -> "nausea"
      [] w = "HEADACHE" -> "headache"
      [] w = "Headache" -> "headache"
      [] w = "SEVERE"   -> "severe"
      [] w = "RASH"     -> "rash"
      [] OTHER          -> w

LowerWords(msg) == [i \in 1..Len(msg) |-> ToLowerCase(msg[i])]

\* String.prototype.includes on word sequences: pat occurs contiguously in msg.
Includes(msg, pat) ==
    \E i \in 0..(Len(msg) - Len(pat)) :
        \A j \in 1..Len(pat) : msg[i + j] = pat[j]

\* ------------------------------------------------------------ errors

McpError(code, message) == [type |-> "McpError", code |-> code, message |-> message]

\* validateInput of @sineai/mcp-core, whose code is not in the repository:
\* it throws for a missing value and for the empty string and returns
\* otherwise.  It is given the value alone.
validateInput(value) ==
    IF value = Undefined
    THEN Some(McpError("InvalidParams", <<"input", "is", "required">>))
    ELSE IF value[1] = ""
    THEN Some(McpError("InvalidParams", <<"input", "cannot", "be", "empty">>))
    ELSE Undefined

\* ------------------------------------------------------------ steps

OPENFDA_FAERS_URL == "event.json"
OPENFDA_LABEL_URL == "label.json"
OPENFDA_ENFORCEMENT_URL == "enforcement.json"

\* The next thing a handler does: issue a GET and await the response,
\* return an object (given by its top-level keys), or throw.
Get(baseUrl, count, limit) ==
    [op |-> "get", baseUrl |-> baseUrl, count |-> count, limit |-> limit]

Return(keys) == [op |-> "return", keys |-> keys]

Throw(error) == [op |-> "throw", error |-> error]

\* What the upstream answers to one GET.
\*   data   a JSON envelope with a non-empty results array
\*   empty  a JSON envelope whose results are [] or absent; every test in the
\*          handlers is `!data.results || data.results.length === 0`
\*   error  a JSON envelope with an error object, msg its message
\*   fail   fetch() or response.json() rejects with an Error, msg its message
Responses ==
    { [kind |-> "data",  msg |-> ""],
      [kind |-> "empty", msg |-> ""],
      [kind |-> "error", msg |-> "No matches found!"],
      [kind |-> "fail",  msg |-> "fetch failed"] }

HasResults(r) == r.kind = "data"

\* A fetchFAERS that does not test `data.error`.
fetchFAERSNoEnvelopeCheck(r) ==
    IF r.kind = "fail"
    THEN Some(McpError("InternalError",
                       <<"Failed", "to", "fetch", "FAERS", "data", ":", r.msg>>))
    ELSE Undefined

\* A fetchFAERS whose catch clause does not rethrow.
fetchFAERSNoRethrow(r) ==
    IF r.kind = "error"
    THEN Some(McpError("InternalError", <<"FAERS", "API", "Error", ":", r.msg>>))
    ELSE Undefined

\* fetchFAERS after the response r arrived: the error it throws, if any.
fetchFAERS(r) ==
    IF r.kind = "error"
    THEN Some(McpError("InternalError", <<"FAERS", "API", "Error", ":", r.msg>>))
    ELSE IF r.kind = "fail"
    THEN Some(McpError("InternalError",
                       <<"Failed", "to", "fetch", "FAERS", "data", ":", r.msg>>))
    ELSE Undefined

\* ------------------------------------------------------------ arguments

\* The arguments object of a call: the parameters that decide a handler's
\* control flow or the parameters of its GETs.
ArgNames ==
    {"drug_name", "reaction", "indication", "drug_class", "drug_names",
     "group_by", "classification", "status", "limit", "top_n",
     "include_adult_comparison", "include_label_warnings", "include_recalls"}

NoArgs == [k \in ArgNames |-> Undefined]

\* The last response received.
Last(resps) == resps[Len(resps)]

\* A handler that awaits fetchFAERS calls one after another: the error of the
\* last response if fetchFAERS throws on it, which ends the handler.
FaersThrown(resps) ==
    IF Len(resps) = 0 THEN Undefined ELSE fetchFAERS(Last(resps))

REACTION_EXACT == "patient.reaction.reactionmeddrapt.exact"
BRAND_EXACT == "patient.drug.openfda.brand_name.exact"

\* ------------------------------------------------------------ handlers

handleSearchAdverseEvents(args, resps) ==
    IF validateInput(args.drug_name) # Undefined
    THEN Throw(validateInput(args.drug_name)[1])
    ELSE IF TruthyStr(args.reaction) /\ validateInput(args.reaction) # Undefined
    THEN Throw(validateInput(args.reaction)[1])
    ELSE IF Len(resps) = 0
    THEN Get(OPENFDA_FAERS_URL, Undefined, MathMin(NumOr(args.limit, 10), 100))
    ELSE IF FaersThrown(resps) # Undefined
    THEN Throw(FaersThrown(resps)[1])
    ELSE IF ~HasResults(resps[1])
    THEN Return({"message", "disclaimer"})
    ELSE Return({"total_matching", "returned", "results", "disclaimer"})

\* Names every JavaScript object inherits from Object.prototype: a lookup
\* `map[key]` with one of them yields a truthy value that is no own entry.
ObjectPrototypeKeys ==
    {"constructor", "toString", "valueOf", "hasOwnProperty", "__proto__"}

\* countFieldMap[args.group_by] of handleGetEventCounts.
countFieldMap(group_by) ==
    IF group_by = Undefined THEN Undefined
    ELSE CASE group_by[1] = "reaction" -> Some(REACTION_EXACT)
           [] group_by[1] = "outcome" -> Some("patient.reaction.reactionoutcome")
           [] group_by[1] = "age" -> Some("patient.patientonsetage")
           [] group_by[1] = "sex" -> Some("patient.patientsex")
           [] group_by[1] = "country" -> Some("occurcountry.exact")
           [] group_by[1] = "reporter_type" -> Some("primarysource.qualification")
           [] group_by[1] = "route" -> Some("patient.drug.drugadministrationroute")
           [] group_by[1] \in ObjectPrototypeKeys -> Some("[inherited]")
           [] OTHER -> Undefined

handleGetEventCounts(args, resps) ==
    IF validateInput(args.drug_name) # Undefined
    THEN Throw(validateInput(args.drug_name)[1])
    ELSE IF countFieldMap(args.group_by) = Undefined
    THEN Throw(McpError("InvalidParams",
                        <<"Invalid", "group_by", "field", ":",
                          IF args.group_by = Undefined THEN "undefined"
                          ELSE args.group_by[1]>>))
    ELSE IF Len(resps) = 0
    THEN Get(OPENFDA_FAERS_URL, countFieldMap(args.group_by), NumOr(args.limit, 20))
    ELSE IF FaersThrown(resps) # Undefined
    THEN Throw(FaersThrown(resps)[1])
    ELSE IF ~HasResults(resps[1])
    THEN Return({"message", "disclaimer"})
    ELSE Return({"drug", "grouped_by", "results", "visualization_hint", "disclaimer"})

\* The first drug of the list that validateInput rejects, as a set of indexes.
InvalidDrugs(names) == {i \in DOMAIN names : validateInput(names[i]) # Undefined}

Min(S) == CHOOSE x \in S : \A y \in S : x <= y

\* A handleCompareSafetyProfiles that goes on to the next drug when the
\* request for one drug has failed.
handleCompareSafetyProfilesCarriesOn(args, resps) ==
    IF \/ args.drug_names = Undefined
       \/ Len(args.drug_names[1]) < 2
       \/ Len(args.drug_names[1]) > 5
    THEN Throw(McpError("InvalidParams",
                        <<"Please", "provide", "2-5", "drugs", "to", "compare">>))
    ELSE IF InvalidDrugs(args.drug_names[1]) # {}
    THEN Throw(validateInput(
                 args.drug_names[1][Min(InvalidDrugs(args.drug_names[1]))])[1])
    ELSE IF Len(resps) < Len(args.drug_names[1])
    THEN Get(OPENFDA_FAERS_URL, Some(REACTION_EXACT), NumOr(args.top_n, 10))
    ELSE IF FaersThrown(resps) # Undefined
    THEN Throw(FaersThrown(resps)[1])
    ELSE Return({"comparison", "visualization_hint", "note", "disclaimer"})

handleCompareSafetyProfiles(args, resps) ==
    IF \/ args.drug_names = Undefined
       \/ Len(args.drug_names[1]) < 2
       \/ Len(args.drug_names[1]) > 5
    THEN Throw(McpError("InvalidParams",
                        <<"Please", "provide", "2-5", "drugs", "to", "compare">>))
    ELSE IF InvalidDrugs(args.drug_names[1]) # {}
    THEN Throw(validateInput(
                 args.drug_names[1][Min(InvalidDrugs(args.drug_names[1]))])[1])
    ELSE IF FaersThrown(resps) # Undefined
    THEN Throw(FaersThrown(resps)[1])
    ELSE IF Len(resps) < Len(args.drug_names[1])
    THEN Get(OPENFDA_FAERS_URL, Some(REACTION_EXACT), NumOr(args.top_n, 10))
    ELSE Return({"comparison", "visualization_hint", "note", "disclaimer"})

\* A handleGetSeriousEvents that throws where the source returns the
\* "no results" object.
handleGetSeriousEventsThrowsOnEmpty(args, resps) ==
    IF validateInput(args.drug_name) # Undefined
    THEN Throw(validateInput(args.drug_name)[1])
    ELSE IF Len(resps) = 0
    THEN Get(OPENFDA_FAERS_URL, Undefined, NumOr(args.limit, 10))
    ELSE IF FaersThrown(resps) # Undefined
    THEN Throw(FaersThrown(resps)[1])
    ELSE IF ~HasResults(resps[1])
    THEN Throw(McpError("InternalError", <<"No", "serious", "events", "found">>))
    ELSE Return({"drug", "outcome_filter", "total_matching", "seriousness_breakdown",
                 "results", "visualization_hint", "disclaimer"})

handleGetSeriousEvents(args, resps) ==
    IF validateInput(args.drug_name) # Undefined
    THEN Throw(validateInput(args.drug_name)[1])
    ELSE IF Len(resps) = 0
    THEN Get(OPENFDA_FAERS_URL, Undefined, NumOr(args.limit, 10))
    ELSE IF FaersThrown(resps) # Undefined
    THEN Throw(FaersThrown(resps)[1])
    ELSE IF ~HasResults(resps[1])
    THEN Return({"message", "disclaimer"})
    ELSE Return({"drug", "outcome_filter", "total_matching", "seriousness_breakdown",
                 "results", "visualization_hint", "disclaimer"})

handleGetReportingTrends(args, resps) ==
    IF validateInput(args.drug_name) # Undefined
    THEN Throw(validateInput(args.drug_name)[1])
    ELSE IF Len(resps) = 0
    THEN Get(OPENFDA_FAERS_URL, Some("receivedate"), 1000)
    ELSE IF FaersThrown(resps) # Undefined
    THEN Throw(FaersThrown(resps)[1])
    ELSE IF ~HasResults(resps[1])
    THEN Return({"message", "disclaimer"})
    ELSE Return({"drug", "granularity", "period", "trends", "visualization_hint",
                 "note", "disclaimer"})

\* A handleSearchByReaction without its validateInput call.
handleSearchByReactionNoValidation(args, resps) ==
    IF Len(resps) = 0
    THEN Get(OPENFDA_FAERS_URL, Some(BRAND_EXACT), NumOr(args.limit, 20))
    ELSE IF FaersThrown(resps) # Undefined
    THEN Throw(FaersThrown(resps)[1])
    ELSE IF ~HasResults(resps[1])
    THEN Return({"message", "disclaimer"})
    ELSE Return({"reaction", "drugs", "visualization_hint", "note", "disclaimer"})

handleSearchByReaction(args, resps) ==
    IF validateInput(args.reaction) # Undefined
    THEN Throw(validateInput(args.reaction)[1])
    ELSE IF Len(resps) = 0
    THEN Get(OPENFDA_FAERS_URL, Some(BRAND_EXACT), NumOr(args.limit, 20))
    ELSE IF FaersThrown(resps) # Undefined
    THEN Throw(FaersThrown(resps)[1])
    ELSE IF ~HasResults(resps[1])
    THEN Return({"message", "disclaimer"})
    ELSE Return({"reaction", "drugs", "visualization_hint", "note", "disclaimer"})

handleGetConcomitantDrugs(args, resps) ==
    IF validateInput(args.drug_name) # Undefined
    THEN Throw(validateInput(args.drug_name)[1])
    ELSE IF Len(resps) = 0
    THEN Get(OPENFDA_FAERS_URL, Some(BRAND_EXACT), NumOr(args.limit, 20) + 5)
    ELSE IF FaersThrown(resps) # Undefined
    THEN Throw(FaersThrown(resps)[1])
    ELSE IF ~HasResults(resps[1])
    THEN Return({"message", "disclaimer"})
    ELSE Return({"primary_drug", "concomitant_drugs", "visualization_hint",
                 "note", "disclaimer"})

handleGetDataInfo(resps) ==
    IF Len(resps) = 0
    THEN Get(OPENFDA_FAERS_URL, Undefined, 1)
    ELSE IF FaersThrown(resps) # Undefined
    THEN Throw(FaersThrown(resps)[1])
    ELSE Return({"database", "source", "api_documentation", "last_updated",
                 "coverage", "update_frequency", "rate_limit_status",
                 "limitations", "proper_use", "disclaimer"})

\* A GET the handler issues with fetch() inside its own try block: the error
\* the handler's catch clause throws when fetch() or json() rejects.
FetchFailed(what, r) ==
    McpError("InternalError", <<"Failed", "to", "fetch">> \o what \o <<":", r.msg>>)

handleGetDrugLabelInfo(args, resps) ==
    IF validateInput(args.drug_name) # Undefined
    THEN Throw(validateInput(args.drug_name)[1])
    ELSE IF Len(resps) = 0
    THEN Get(OPENFDA_LABEL_URL, Undefined, 1)
    ELSE IF resps[1].kind = "fail"
    THEN Throw(FetchFailed(<<"drug", "label">>, resps[1]))
    ELSE IF resps[1].kind = "error" \/ ~HasResults(resps[1])
    THEN Return({"message", "suggestion"})
    ELSE Return({"drug", "label_info", "has_boxed_warning", "source"})

handleGetRecallInfo(args, resps) ==
    IF validateInput(args.drug_name) # Undefined
    THEN Throw(validateInput(args.drug_name)[1])
    ELSE IF Len(resps) = 0
    THEN Get(OPENFDA_ENFORCEMENT_URL, Undefined, NumOr(args.limit, 10))
    ELSE IF resps[1].kind = "fail"
    THEN Throw(FetchFailed(<<"recall", "info">>, resps[1]))
    ELSE IF resps[1].kind = "error" \/ ~HasResults(resps[1])
    THEN Return({"message", "note"})
    ELSE Return({"drug", "total_recalls", "returned", "classification_summary",
                 "recalls", "visualization_hint", "source"})

handleSearchByIndication(args, resps) ==
    IF validateInput(args.indication) # Undefined
    THEN Throw(validateInput(args.indication)[1])
    ELSE IF Len(resps) = 0
    THEN Get(OPENFDA_FAERS_URL,
             IF StrOr(args.group_by, "drug") = "reaction"
             THEN Some(REACTION_EXACT) ELSE Some(BRAND_EXACT),
             NumOr(args.limit, 20))
    ELSE IF FaersThrown(resps) # Undefined
    THEN Throw(FaersThrown(resps)[1])
    ELSE IF ~HasResults(resps[1])
    THEN Return({"message", "suggestion", "disclaimer"})
    ELSE Return({"indication", "grouped_by", "results", "visualization_hint",
                 "note", "disclaimer"})

handleSearchByDrugClass(args, resps) ==
    IF validateInput(args.drug_class) # Undefined
    THEN Throw(validateInput(args.drug_class)[1])
    ELSE IF Len(resps) = 0
    THEN Get(OPENFDA_FAERS_URL,
             IF StrOr(args.group_by, "reaction") = "drug"
             THEN Some(BRAND_EXACT) ELSE Some(REACTION_EXACT),
             NumOr(args.limit, 20))
    ELSE IF FaersThrown(resps) # Undefined
    THEN Throw(FaersThrown(resps)[1])
    ELSE IF ~HasResults(resps[1])
    THEN Return({"message", "suggestion", "common_classes", "disclaimer"})
    ELSE IF StrOr(args.group_by, "reaction") = "reaction" /\ Len(resps) = 1
    THEN Get(OPENFDA_FAERS_URL, Some(BRAND_EXACT), 10)
    ELSE Return({"drug_class", "grouped_by", "serious_only", "results",
                 "visualization_hint", "note", "disclaimer"}
                \cup (IF Len(resps) = 2 /\ HasResults(resps[2])
                      THEN {"drugs_in_class"} ELSE {}))

handleCompareLabelToReports(args, resps) ==
    IF validateInput(args.drug_name) # Undefined
    THEN Throw(validateInput(args.drug_name)[1])
    ELSE IF Len(resps) = 0
    THEN Get(OPENFDA_LABEL_URL, Undefined, 1)
    ELSE IF Len(resps) = 1
    THEN Get(OPENFDA_FAERS_URL, Some(REACTION_EXACT), NumOr(args.top_n, 20))
    ELSE IF FaersThrown(resps) # Undefined
    THEN Throw(FaersThrown(resps)[1])
    ELSE IF ~HasResults(resps[2])
    THEN Return({"message", "label_data_available", "disclaimer"})
    ELSE Return({"drug", "brand_name", "generic_name", "analysis_summary",
                 "has_boxed_warning", "labeled_reactions", "potential_signals",
                 "visualization_hint", "interpretation", "note", "disclaimer"})

\* The fetchFAERS calls of an age-group handler that never compares with
\* adults.
AgeGroupGetsNoComparison(limit, includeAdultComparison) ==
    << Get(OPENFDA_FAERS_URL, Some(REACTION_EXACT), limit),
       Get(OPENFDA_FAERS_URL, Undefined, 1),
       Get(OPENFDA_FAERS_URL, Undefined, 1),
       Get(OPENFDA_FAERS_URL, Some("patient.patientsex"), 3) >>

\* The fetchFAERS calls of the pediatric and the geriatric handler, in order.
AgeGroupGets(limit, includeAdultComparison) ==
    << Get(OPENFDA_FAERS_URL, Some(REACTION_EXACT), limit),
       Get(OPENFDA_FAERS_URL, Undefined, 1),
       Get(OPENFDA_FAERS_URL, Undefined, 1),
       Get(OPENFDA_FAERS_URL, Some("patient.patientsex"), 3) >>
    \o (IF includeAdultComparison
        THEN << Get(OPENFDA_FAERS_URL, Some(REACTION_EXACT), limit),
                Get(OPENFDA_FAERS_URL, Undefined, 1) >>
        ELSE << >>)

handleGetPediatricSafety(args, resps) ==
    LET gets == AgeGroupGets(NumOr(args.limit, 15),
                             NotFalse(args.include_adult_comparison))
    IN  IF validateInput(args.drug_name) # Undefined
        THEN Throw(validateInput(args.drug_name)[1])
        ELSE IF FaersThrown(resps) # Undefined
        THEN Throw(FaersThrown(resps)[1])
        ELSE IF Len(resps) < Len(gets)
        THEN gets[Len(resps) + 1]
        ELSE Return({"drug", "age_group", "pediatric_summary",
                     "top_pediatric_reactions", "adult_comparison",
                     "visualization_hint", "regulatory_note", "disclaimer"})

handleGetGeriatricSafety(args, resps) ==
    LET gets == AgeGroupGets(NumOr(args.limit, 15),
                             NotFalse(args.include_adult_comparison))
    IN  IF validateInput(args.drug_name) # Undefined
        THEN Throw(validateInput(args.drug_name)[1])
        ELSE IF FaersThrown(resps) # Undefined
        THEN Throw(FaersThrown(resps)[1])
        ELSE IF Len(resps) < Len(gets)
        THEN gets[Len(resps) + 1]
        ELSE Return({"drug", "age_group", "geriatric_summary",
                     "top_geriatric_reactions", "geriatric_specific_concerns",
                     "younger_adult_comparison", "visualization_hint",
                     "regulatory_note", "disclaimer"})

\* The five fetchFAERS calls of handleGetSafetySummary, in order.
SummaryFaersGets ==
    << Get(OPENFDA_FAERS_URL, Undefined, 1),
       Get(OPENFDA_FAERS_URL, Undefined, 1),
       Get(OPENFDA_FAERS_URL, Some(REACTION_EXACT), 10),
       Get(OPENFDA_FAERS_URL, Some("patient.reaction.reactionoutcome"), 10),
       Get(OPENFDA_FAERS_URL, Some("receivedate"), 100) >>

\* The label and the recall GET of handleGetSafetySummary, each inside a try
\* block whose catch clause is empty.
SummaryOptionalGets(args) ==
    (IF NotFalse(args.include_label_warnings)
     THEN << Get(OPENFDA_LABEL_URL, Undefined, 1) >> ELSE << >>)
    \o (IF NotFalse(args.include_recalls)
        THEN << Get(OPENFDA_ENFORCEMENT_URL, Undefined, 5) >> ELSE << >>)

handleGetSafetySummary(args, resps) ==
    LET gets == SummaryFaersGets \o SummaryOptionalGets(args)
    IN  IF validateInput(args.drug_name) # Undefined
        THEN Throw(validateInput(args.drug_name)[1])
        ELSE IF Len(resps) <= Len(SummaryFaersGets) /\ FaersThrown(resps) # Undefined
        THEN Throw(FaersThrown(resps)[1])
        ELSE IF Len(resps) < Len(gets)
        THEN gets[Len(resps) + 1]
        ELSE Return({"drug", "report_summary", "top_10_reactions",
                     "outcome_distribution", "trend", "label_warnings",
                     "recall_summary", "visualization_hint", "disclaimer"})

handleGetPregnancyLactationInfo(args, resps) ==
    IF validateInput(args.drug_name) # Undefined
    THEN Throw(validateInput(args.drug_name)[1])
    ELSE IF Len(resps) = 0
    THEN Get(OPENFDA_LABEL_URL, Undefined, 1)
    ELSE IF resps[1].kind = "fail"
    THEN Throw(FetchFailed(<<"pregnancy/lactation", "info">>, resps[1]))
    ELSE IF resps[1].kind = "error" \/ ~HasResults(resps[1])
    THEN Return({"message", "suggestion"})
    ELSE Return({"drug", "pregnancy_risk_assessment", "pregnancy_contraindicated",
                 "label_sections", "protocol_guidance", "source", "note"})

\* ------------------------------------------------------------ router

\* A router that lost the case of the last catalog entry.
handleToolWithoutPregnancyCase(name, args, resps) ==
    CASE name = "search_adverse_events" -> handleSearchAdverseEvents(args, resps)
      [] name = "get_event_counts" -> handleGetEventCounts(args, resps)
      [] name = "compare_safety_profiles" -> handleCompareSafetyProfiles(args, resps)
      [] name = "get_serious_events" -> handleGetSeriousEvents(args, resps)
      [] name = "get_reporting_trends" -> handleGetReportingTrends(args, resps)
      [] name = "search_by_reaction" -> handleSearchByReaction(args, resps)
      [] name = "get_concomitant_drugs" -> handleGetConcomitantDrugs(args, resps)
      [] name = "get_data_info" -> handleGetDataInfo(resps)
      [] name = "get_drug_label_info" -> handleGetDrugLabelInfo(args, resps)
      [] name = "get_recall_info" -> handleGetRecallInfo(args, resps)
      [] name = "search_by_indication" -> handleSearchByIndication(args, resps)
      [] name = "search_by_drug_class" -> handleSearchByDrugClass(args, resps)
      [] name = "compare_label_to_reports" -> handleCompareLabelToReports(args, resps)
      [] name = "get_pediatric_safety" -> handleGetPediatricSafety(args, resps)
      [] name = "get_geriatric_safety" -> handleGetGeriatricSafety(args, resps)
      [] name = "get_safety_summary" -> handleGetSafetySummary(args, resps)
      [] OTHER -> Throw(McpError("MethodNotFound", <<"Unknown", "tool", ":", name>>))

\* A router whose default clause falls through to the metadata handler.
handleToolDefaultDataInfo(name, args, resps) ==
    CASE name = "search_adverse_events" -> handleSearchAdverseEvents(args, resps)
      [] name = "get_event_counts" -> handleGetEventCounts(args, resps)
      [] name = "compare_safety_profiles" -> handleCompareSafetyProfiles(args, resps)
      [] name = "get_serious_events" -> handleGetSeriousEvents(args, resps)
      [] name = "get_reporting_trends" -> handleGetReportingTrends(args, resps)
      [] name = "search_by_reaction" -> handleSearchByReaction(args, resps)
      [] name = "get_concomitant_drugs" -> handleGetConcomitantDrugs(args, resps)
      [] name = "get_data_info" -> handleGetDataInfo(resps)
      [] name = "get_drug_label_info" -> handleGetDrugLabelInfo(args, resps)
      [] name = "get_recall_info" -> handleGetRecallInfo(args, resps)
      [] name = "search_by_indication" -> handleSearchByIndication(args, resps)
      [] name = "search_by_drug_class" -> handleSearchByDrugClass(args, resps)
      [] name = "compare_label_to_reports" -> handleCompareLabelToReports(args, resps)
      [] name = "get_pediatric_safety" -> handleGetPediatricSafety(args, resps)
      [] name = "get_geriatric_safety" -> handleGetGeriatricSafety(args, resps)
      [] name = "get_safety_summary" -> handleGetSafetySummary(args, resps)
      [] name = "get_pregnancy_lactation_info" ->
             handleGetPregnancyLactationInfo(args, resps)
      [] OTHER -> handleGetDataInfo(resps)

handleTool(name, args, resps) ==
    CASE name = "search_adverse_events" -> handleSearchAdverseEvents(args, resps)
      [] name = "get_event_counts" -> handleGetEventCounts(args, resps)
      [] name = "compare_safety_profiles" -> handleCompareSafetyProfiles(args, resps)
      [] name = "get_serious_events" -> handleGetSeriousEvents(args, resps)
      [] name = "get_reporting_trends" -> handleGetReportingTrends(args, resps)
      [] name = "search_by_reaction" -> handleSearchByReaction(args, resps)
      [] name = "get_concomitant_drugs" -> handleGetConcomitantDrugs(args, resps)
      [] name = "get_data_info" -> handleGetDataInfo(resps)
      [] name = "get_drug_label_info" -> handleGetDrugLabelInfo(args, resps)
      [] name = "get_recall_info" -> handleGetRecallInfo(args, resps)
      [] name = "search_by_indication" -> handleSearchByIndication(args, resps)
      [] name = "search_by_drug_class" -> handleSearchByDrugClass(args, resps)
      [] name = "compare_label_to_reports" -> handleCompareLabelToReports(args, resps)
      [] name = "get_pediatric_safety" -> handleGetPediatricSafety(args, resps)
      [] name = "get_geriatric_safety" -> handleGetGeriatricSafety(args, resps)
      [] name = "get_safety_summary" -> handleGetSafetySummary(args, resps)
      [] name = "get_pregnancy_lactation_info" ->
             handleGetPregnancyLactationInfo(args, resps)
      [] OTHER -> Throw(McpError("MethodNotFound", <<"Unknown", "tool", ":", name>>))

\* ------------------------------------------------------------ API key, URL

\* buildUrl once getApiKey returned apiKey: the query parameters of the URL.
\* `if (apiKey)` and `if (params.limit)` leave a falsy value out.
buildUrl(get, apiKey) ==
    [baseUrl |-> get.baseUrl,
     api_key |-> IF apiKey # "" THEN Some(apiKey) ELSE Undefined,
     count   |-> get.count,
     limit   |-> IF get.limit # 0 THEN Some(get.limit) ELSE Undefined]

\* What secrets.get("openfda-api-key") can do.
SecretOutcomes == {"value", "nothing", "throws"}

VAULT_KEY == "key-from-vault"

\* getApiKey after secrets.get settled: the value it caches and returns.
getApiKeyFromVault(outcome) == IF outcome = "value" THEN VAULT_KEY ELSE ""

\* ------------------------------------------------------------ call-tool handler

SessionIds == {"s1", "s2"}

\* The transport of runLocalMode, which is in no map.
STDIO == "stdio"

IdleCall ==
    [pc |-> "idle", session |-> "", name |-> "", args |-> NoArgs,
     resps |-> << >>, sent |-> << >>, lookups |-> 0, pending |-> Undefined,
     thrown |-> Undefined, response |-> Undefined]

\* The CallToolRequestSchema handler's two ways out.
CallToolResult(keys) == [isError |-> FALSE, keys |-> keys, text |-> << >>]

\* A catch clause that does not flag its response as an error.
CallToolCatchNoFlag(error) ==
    [isError |-> FALSE, keys |-> {}, text |-> <<"Error", ":">> \o error.message]

CallToolCatch(error) ==
    [isError |-> TRUE, keys |-> {}, text |-> <<"Error", ":">> \o error.message]

\* The handler of call cl runs from where it is to its next await or to its
\* end; an end is turned into the call-tool response at once.
Advance(c, cl) ==
    LET step == handleTool(cl.name, cl.args, cl.resps)
    IN  CASE step.op = "throw" ->
               /\ calls' = [calls EXCEPT ![c] =
                     [cl EXCEPT !.pc = "done", !.thrown = Some(step.error),
                                !.response = Some(CallToolCatch(step.error))]]
               /\ UNCHANGED <<OPENFDA_API_KEY, lookups>>
          [] step.op = "return" ->
               /\ calls' = [calls EXCEPT ![c] =
                     [cl EXCEPT !.pc = "done",
                                !.response = Some(CallToolResult(step.keys))]]
               /\ UNCHANGED <<OPENFDA_API_KEY, lookups>>
          [] step.op = "get" /\ OPENFDA_API_KEY # Undefined ->
               /\ calls' = [calls EXCEPT ![c] =
                     [cl EXCEPT !.pc = "fetch",
                                !.sent = Append(@, buildUrl(step, OPENFDA_API_KEY[1]))]]
               /\ UNCHANGED <<OPENFDA_API_KEY, lookups>>
          [] step.op = "get" /\ OPENFDA_API_KEY = Undefined /\ TruthyStr(env_key) ->
               /\ OPENFDA_API_KEY' = env_key
               /\ calls' = [calls EXCEPT ![c] =
                     [cl EXCEPT !.pc = "fetch",
                                !.sent = Append(@, buildUrl(step, env_key[1]))]]
               /\ UNCHANGED lookups
          [] OTHER ->
               /\ calls' = [calls EXCEPT ![c] =
                     [cl EXCEPT !.pc = "secrets", !.lookups = @ + 1,
                                !.pending = Some(step)]]
               /\ lookups' = lookups + 1
               /\ UNCHANGED OPENFDA_API_KEY

\* A tools/call request arrives over the transport of session s.
CallToolRequest(c, s, inp) ==
    /\ calls[c].pc = "idle"
    /\ IF s = STDIO THEN TRUE
       ELSE /\ transports[s] # Undefined
            /\ transports[s][1].ready /\ ~transports[s][1].closed
    /\ Advance(c, [IdleCall EXCEPT !.session = s, !.name = inp.name,
                                   !.args = inp.args])
    /\ UNCHANGED <<env_key, transports>>
    /\ UNCHANGED <<httpVars, fnVars>>

\* secrets.get settles; getApiKey caches the key and the GET is issued.
SecretsGetReturn(c, outcome) ==
    /\ calls[c].pc = "secrets"
    /\ OPENFDA_API_KEY' = Some(getApiKeyFromVault(outcome))
    /\ calls' = [calls EXCEPT ![c] =
          [@ EXCEPT !.pc = "fetch", !.pending = Undefined,
                    !.sent = Append(@, buildUrl(calls[c].pending[1],
                                                getApiKeyFromVault(outcome)))]]
    /\ UNCHANGED <<env_key, lookups, transports>>
    /\ UNCHANGED <<httpVars, fnVars>>

\* The upstream answers the GET the call is waiting for.
FetchReturn(c, r) ==
    /\ calls[c].pc = "fetch"
    /\ Advance(c, [calls[c] EXCEPT !.resps = Append(@, r)])
    /\ UNCHANGED <<env_key, transports>>
    /\ UNCHANGED <<httpVars, fnVars>>

\* The response has been written; the slot is free for the next call.
CallToolRespond(c) ==
    /\ calls[c].pc = "done"
    /\ calls' = [calls EXCEPT ![c] = IdleCall]
    /\ UNCHANGED <<OPENFDA_API_KEY, env_key, lookups, transports>>
    /\ UNCHANGED <<httpVars, fnVars>>

\* ------------------------------------------------------------ bearer-token check

\* String.prototype.split(" ") on a header made of words and single spaces:
\* the parts between the spaces, each a sequence of words (<<>> is "").
RECURSIVE Split(_)
Split(h) ==
    IF h = << >> THEN << << >> >>
    ELSE LET rest == Split(Tail(h))
         IN  IF Head(h) = " "
             THEN << << >> >> \o rest
             ELSE << <<Head(h)>> \o rest[1] >> \o Tail(rest)

\* The string a part stands for; the headers used have one word per part.
Word(part) == IF part = << >> THEN "" ELSE part[1]

\* The bearer token of the Authorization header, <<>> is null.
extractBearerToken(authHeader) ==
    IF authHeader = Undefined \/ authHeader[1] = << >> THEN Undefined
    ELSE LET parts == Split(authHeader[1])
         IN  IF Len(parts) # 2 \/ ToLowerCase(Word(parts[1])) # "bearer"
             THEN Undefined
             ELSE Some(Word(parts[2]))

Tokens == {"tok1", "tok2"}

\* createSession is called with expiresIn = 3600 s, one hour.
EXPIRES_IN == 2

\* A getSession without the expiry test.
getSessionNoExpiryTest(token) ==
    IF token \notin Tokens \/ sessions[token] = Undefined THEN Undefined
    ELSE sessions[token]

\* sessions.get(token) followed by the expiry test of getSession.
getSession(token) ==
    IF token \notin Tokens \/ sessions[token] = Undefined THEN Undefined
    ELSE IF now > sessions[token][1].expiresAt THEN Undefined
    ELSE sessions[token]

\* The session map after getSession(token): an expired entry is deleted.
SessionsAfterGetSession(token) ==
    IF token \in Tokens /\ sessions[token] # Undefined
                        /\ now > sessions[token][1].expiresAt
    THEN [sessions EXCEPT ![token] = Undefined]
    ELSE sessions

AuthResult(authenticated, userId, error) ==
    [authenticated |-> authenticated, userId |-> userId, error |-> error]

\* What the gateway's userinfo endpoint can answer.
\*   ok      a 2xx response whose JSON body has this `sub`
\*   status  a response that is not ok
\*   throw   fetch() or response.json() rejects with this message
GatewayResponses ==
    { [kind |-> "ok", status |-> "200", sub |-> "user-1", msg |-> << >>],
      [kind |-> "ok", status |-> "200", sub |-> "", msg |-> << >>],
      [kind |-> "status", status |-> "401", sub |-> "", msg |-> << >>],
      [kind |-> "status", status |-> "403", sub |-> "", msg |-> << >>],
      [kind |-> "status", status |-> "500", sub |-> "", msg |-> << >>],
      [kind |-> "throw", status |-> "", sub |-> "",
       msg |-> <<"connect", "ECONNREFUSED", "10.0.0.5:443">>],
      [kind |-> "throw", status |-> "", sub |-> "",
       msg |-> <<"Unexpected", "token", "<", "in", "JSON">>],
      [kind |-> "throw", status |-> "", sub |-> "",
       msg |-> <<"upstream", "says", "Invalid", "token", "format">>] }

\* A validateTokenWithGateway that lets a token through when the gateway
\* cannot be reached.
validateTokenWithGatewayFailOpen(g) ==
    IF g.kind = "status" /\ g.status = "401"
    THEN AuthResult(FALSE, Undefined,
                    Some(<<"Invalid", "or", "expired", "token", ".",
                           "Please", "sign", "in", "again", ".">>))
    ELSE IF g.kind = "status"
    THEN AuthResult(FALSE, Undefined,
                    Some(<<"Token", "validation", "failed", ":", g.status>>))
    ELSE AuthResult(TRUE, Some(g.sub), Undefined)

\* validateTokenWithGateway after the gateway answered g.
validateTokenWithGateway(g) ==
    IF g.kind = "status" /\ g.status = "401"
    THEN AuthResult(FALSE, Undefined,
                    Some(<<"Invalid", "or", "expired", "token", ".",
                           "Please", "sign", "in", "again", ".">>))
    ELSE IF g.kind = "status"
    THEN AuthResult(FALSE, Undefined,
                    Some(<<"Token", "validation", "failed", ":", g.status>>))
    ELSE IF g.kind = "throw"
    THEN AuthResult(FALSE, Undefined,
                    Some(<<"Gateway", "validation", "failed", ":">> \o g.msg))
    ELSE AuthResult(TRUE, Some(g.sub), Undefined)

\* The patterns of safeMessages in insertion order, with their messages.
safeMessages ==
    << [pattern |-> <<"missing", "authorization", "header">>,
        message |-> <<"Authentication", "required", ".", "Please", "sign", "in", ".">>],
       [pattern |-> <<"invalid", "token", "format">>,
        message |-> <<"Invalid", "authentication", "token", ".",
                      "Please", "sign", "in", "again", ".">>],
       [pattern |-> <<"invalid", "or", "expired", "token">>,
        message |-> <<"Your", "session", "has", "expired", ".",
                      "Please", "sign", "in", "again", ".">>],
       [pattern |-> <<"token", "validation", "failed">>,
        message |-> <<"Authentication", "failed", ".", "Please", "try", "again", ".">>],
       [pattern |-> <<"gateway", "validation", "failed">>,
        message |-> <<"Authentication", "service", "unavailable", ".",
                      "Please", "try", "again", "later", ".">>] >>

\* The generic message of sanitizeErrorMessage.
DefaultSafeMessage ==
    <<"Authentication", "failed", ".", "Please", "sign", "in", "again", ".">>

\* A sanitizeErrorMessage that hands the internal error on.
sanitizeErrorMessageEcho(error) ==
    error

sanitizeErrorMessage(error) ==
    LET matching == {i \in DOMAIN safeMessages :
                        Includes(LowerWords(error), safeMessages[i].pattern)}
    IN  IF matching # {}
        THEN safeMessages[Min(matching)].message
        ELSE DefaultSafeMessage

\* The response sendUnauthorized writes.
sendUnauthorized(error) ==
    [status |-> 401,
     body |-> Some([error |-> "unauthorized",
                    error_description |-> sanitizeErrorMessage(error)])]

\* ------------------------------------------------------------ HTTP endpoint

MCP_PATH == "/mcp"
HEALTH_PATH == "/health"
DISCOVERY_PATH == "/.well-known/oauth-authorization-server"

IdleRequest ==
    [pc |-> "idle", method |-> "", path |-> "", authorization |-> Undefined,
     session_header |-> Undefined,
     token |-> Undefined,      \* what extractBearerToken returned
     session |-> Undefined,    \* what getSession returned
     gateway |-> Undefined,    \* what the gateway answered
     auth |-> Undefined,       \* what authenticateRequest returned
     sessionId |-> Undefined, status |-> 0, body |-> Undefined]

\* A transport right after `new StreamableHTTPServerTransport`.
NewTransport == [ready |-> FALSE, onclose |-> FALSE, closed |-> FALSE]

\* crypto.randomUUID(): an id no transport is registered under.
RandomUUID == {s \in SessionIds : transports[s] = Undefined}

\* The /mcp branch from the result of authenticateRequest on: a 401, or the
\* transport of the session, created and connected first when there is none.
McpEndpoint(r, rq) ==
    IF ~rq.auth[1].authenticated
    THEN /\ reqs' = [reqs EXCEPT ![r] =
                [rq EXCEPT !.pc = "done",
                   !.status = sendUnauthorized(
                       IF rq.auth[1].error # Undefined /\ rq.auth[1].error[1] # << >>
                       THEN rq.auth[1].error[1]
                       ELSE <<"Authentication", "required">>).status,
                   !.body = sendUnauthorized(
                       IF rq.auth[1].error # Undefined /\ rq.auth[1].error[1] # << >>
                       THEN rq.auth[1].error[1]
                       ELSE <<"Authentication", "required">>).body]]
         /\ UNCHANGED transports
    ELSE \E sessionId \in (IF TruthyStr(rq.session_header)
                           THEN {rq.session_header[1]} ELSE RandomUUID) :
            IF transports[sessionId] # Undefined
            THEN /\ reqs' = [reqs EXCEPT ![r] =
                        [rq EXCEPT !.pc = "handle", !.sessionId = Some(sessionId)]]
                 /\ UNCHANGED transports
            ELSE /\ transports' = [transports EXCEPT ![sessionId] = Some(NewTransport)]
                 /\ reqs' = [reqs EXCEPT ![r] =
                        [rq EXCEPT !.pc = "connect", !.sessionId = Some(sessionId)]]

\* authenticateRequest up to its await of the gateway, then the /mcp branch.
authenticateRequest(r, rq) ==
    IF ~oauth_enabled
    THEN /\ McpEndpoint(r, [rq EXCEPT !.auth =
                                Some(AuthResult(TRUE, Undefined, Undefined))])
         /\ UNCHANGED sessions
    ELSE LET token == extractBearerToken(rq.authorization)
         IN  IF ~TruthyStr(token)
             THEN /\ McpEndpoint(r, [rq EXCEPT !.token = token, !.auth =
                        Some(AuthResult(FALSE, Undefined,
                             Some(<<"Missing", "Authorization", "header", ".",
                                    "Please", "sign", "in", "via", "the",
                                    "OAuth", "flow", ".">>)))])
                  /\ UNCHANGED sessions
             ELSE /\ sessions' = SessionsAfterGetSession(token[1])
                  /\ IF getSession(token[1]) # Undefined
                     THEN McpEndpoint(r, [rq EXCEPT !.token = token,
                              !.session = getSession(token[1]),
                              !.auth = Some(AuthResult(TRUE,
                                  Some(getSession(token[1])[1].userId), Undefined))])
                     ELSE /\ reqs' = [reqs EXCEPT ![r] =
                                 [rq EXCEPT !.pc = "gateway", !.token = token]]
                          /\ UNCHANGED transports

Respond(r, rq, status, body) ==
    reqs' = [reqs EXCEPT ![r] = [rq EXCEPT !.pc = "done", !.status = status,
                                           !.body = body]]

\* The request handler of the HTTP server, up to its first await.
HttpRequest(r, req) ==
    /\ reqs[r].pc = "idle"
    /\ LET rq == [IdleRequest EXCEPT !.method = req.method, !.path = req.path,
                      !.authorization = req.authorization,
                      !.session_header = req.session_header]
       IN  CASE req.method = "OPTIONS" ->
                  /\ Respond(r, rq, 204, Undefined)
                  /\ UNCHANGED <<transports, sessions>>
             [] req.method # "OPTIONS" /\ req.path = HEALTH_PATH /\ req.method = "GET" ->
                  /\ Respond(r, rq, 200, Some([status |-> "ok",
                                               oauth_enabled |-> oauth_enabled]))
                  /\ UNCHANGED <<transports, sessions>>
             [] req.method = "GET" /\ req.path = DISCOVERY_PATH ->
                  /\ IF ~oauth_enabled
                     THEN Respond(r, rq, 404, Some([error |-> "OAuth not enabled"]))
                     ELSE Respond(r, rq, 200, Some([issuer |-> "gateway"]))
                  /\ UNCHANGED <<transports, sessions>>
             [] req.method # "OPTIONS" /\ req.path = MCP_PATH ->
                  authenticateRequest(r, rq)
             [] OTHER ->
                  /\ Respond(r, rq, 404, Some([error |-> "Not found"]))
                  /\ UNCHANGED <<transports, sessions>>
    /\ UNCHANGED <<oauth_enabled, timers, now>>
    /\ UNCHANGED <<toolVars, fnVars>>

\* The gateway answers; authenticateRequest caches a successful validation
\* and returns, and the /mcp branch goes on.
GatewayReturn(r, g) ==
    /\ reqs[r].pc = "gateway"
    /\ LET result == validateTokenWithGateway(g)
           token == reqs[r].token[1]
       IN  /\ IF result.authenticated /\ TruthyStr(result.userId)
              THEN /\ sessions' = [sessions EXCEPT ![token] =
                          Some([userId |-> result.userId[1],
                                expiresAt |-> now + EXPIRES_IN])]
                   /\ timers' = timers \cup {[token |-> token, at |-> now + EXPIRES_IN]}
              ELSE UNCHANGED <<sessions, timers>>
           /\ McpEndpoint(r, [reqs[r] EXCEPT !.gateway = Some(g),
                                             !.auth = Some(result)])
    /\ UNCHANGED <<oauth_enabled, now>>
    /\ UNCHANGED <<toolVars, fnVars>>

\* server.connect(transport) completes; onclose is set and the request is
\* passed to the transport.
ConnectReturn(r) ==
    /\ reqs[r].pc = "connect"
    /\ transports' = [transports EXCEPT ![reqs[r].sessionId[1]] =
          Some([@[1] EXCEPT !.ready = TRUE, !.onclose = TRUE])]
    /\ reqs' = [reqs EXCEPT ![r].pc = "handle"]
    /\ UNCHANGED <<oauth_enabled, sessions, timers, now>>
    /\ UNCHANGED <<toolVars, fnVars>>

\* transport.handleRequest completes: the transport has written the response.
HandleRequestReturn(r) ==
    /\ reqs[r].pc = "handle"
    /\ reqs' = [reqs EXCEPT ![r].pc = "done", ![r].status = 200]
    /\ UNCHANGED <<transports, oauth_enabled, sessions, timers, now>>
    /\ UNCHANGED <<toolVars, fnVars>>

\* The response is out; the slot is free for the next request.
HttpRespond(r) ==
    /\ reqs[r].pc = "done"
    /\ reqs' = [reqs EXCEPT ![r] = IdleRequest]
    /\ UNCHANGED <<transports, oauth_enabled, sessions, timers, now>>
    /\ UNCHANGED <<toolVars, fnVars>>

\* The transport of session s closes: its onclose callback, if it is set
\* already, takes it out of the map.
TransportClose(s) ==
    /\ transports[s] # Undefined
    /\ ~transports[s][1].closed
    /\ transports' = [transports EXCEPT ![s] =
          IF @[1].onclose THEN Undefined ELSE Some([@[1] EXCEPT !.closed = TRUE])]
    /\ UNCHANGED <<reqs, oauth_enabled, sessions, timers, now>>
    /\ UNCHANGED <<toolVars, fnVars>>

\* Time passes.
Tick ==
    /\ now < MaxTime
    /\ now' = now + 1
    /\ UNCHANGED <<transports, reqs, oauth_enabled, sessions, timers>>
    /\ UNCHANGED <<toolVars, fnVars>>

\* A timer of createSession is due and runs sessions.delete(sessionId).
TimerFires(tm) ==
    /\ tm \in timers
    /\ now >= tm.at
    /\ sessions' = [sessions EXCEPT ![tm.token] = Undefined]
    /\ timers' = timers \ {tm}
    /\ UNCHANGED <<transports, reqs, oauth_enabled, now>>
    /\ UNCHANGED <<toolVars, fnVars>>

\* ------------------------------------------------------------ coded dimensions

\* A formatted term: a label text, the raw term of the upstream, or both as in
\* the template `Code ${item.term}`.
Label(text) == [text |-> Some(text), term |-> Undefined]

Raw(term) == [text |-> Undefined, term |-> Some(term)]

CodeOf(term) == [text |-> Some("Code"), term |-> Some(term)]

\* The ternary of get_event_counts, of the pediatric and of the geriatric sex
\* distribution.
decodeSex(term) ==
    IF term = 1 THEN Label("Male")
    ELSE IF term = 2 THEN Label("Female")
    ELSE Label("Unknown")

outcomeMapWithoutFatal ==
    [code \in {1, 2, 3, 4, 6} |->
        CASE code = 1 -> "Recovered"
          [] code = 2 -> "Recovering"
          [] code = 3 -> "Not recovered"
          [] code = 4 -> "Recovered with sequelae"
          [] code = 6 -> "Unknown"]

outcomeMap ==
    [code \in 1..6 |->
        CASE code = 1 -> "Recovered"
          [] code = 2 -> "Recovering"
          [] code = 3 -> "Not recovered"
          [] code = 4 -> "Recovered with sequelae"
          [] code = 5 -> "Fatal"
          [] code = 6 -> "Unknown"]

reporterMap ==
    [code \in 1..5 |->
        CASE code = 1 -> "Physician"
          [] code = 2 -> "Pharmacist"
          [] code = 3 -> "Other health professional"
          [] code = 4 -> "Lawyer"
          [] code = 5 -> "Consumer"]

\* `map[item.term] || item.term`: every label of the maps is truthy.
LabelOrTerm(map, term) ==
    IF term \in DOMAIN map THEN Label(map[term]) ELSE Raw(term)

\* The term of one formatted result of get_event_counts.
formattedResults(group_by, term) ==
    CASE group_by = "sex" -> decodeSex(term)
      [] group_by = "outcome" -> LabelOrTerm(outcomeMap, term)
      [] group_by = "reporter_type" -> LabelOrTerm(reporterMap, term)
      [] OTHER -> Raw(term)

\* The outcome of one entry of the outcome distribution of get_safety_summary,
\* whose map has the entries of outcomeMap.
outcomeDistribution(term) ==
    IF term \in DOMAIN outcomeMap THEN Label(outcomeMap[term]) ELSE CodeOf(term)

pediatricSexDistribution(term) == decodeSex(term)

geriatricSexDistribution(term) == decodeSex(term)

\* The aggregations that decode a coded dimension: the tool, the dimension
\* and the count field of the request.
DecodingSites ==
    { [tool |-> "get_event_counts", dimension |-> "sex"],
      [tool |-> "get_event_counts", dimension |-> "outcome"],
      [tool |-> "get_event_counts", dimension |-> "reporter_type"],
      [tool |-> "get_event_counts", dimension |-> "age"],
      [tool |-> "get_safety_summary", dimension |-> "outcome"],
      [tool |-> "get_pediatric_safety", dimension |-> "sex"],
      [tool |-> "get_geriatric_safety", dimension |-> "sex"] }

\* The numeric terms of a count response: the codes of the three dimensions
\* and two codes that no map has.
Terms == 0..7

Decode(site, term) ==
    CASE site.tool = "get_event_counts" -> formattedResults(site.dimension, term)
      [] site.tool = "get_safety_summary" -> outcomeDistribution(term)
      [] site.tool = "get_pediatric_safety" -> pediatricSexDistribution(term)
      [] site.tool = "get_geriatric_safety" -> geriatricSexDistribution(term)

NoEval == [op |-> "none"]

\* One item {term, count} of a count response is formatted.
FormatTerm(site, term) ==
    /\ eval = NoEval
    /\ eval' = [op |-> "decode", site |-> site, term |-> term,
                out |-> Decode(site, term)]
    /\ UNCHANGED <<transports, toolVars, httpVars, limiter, checks, clock>>

\* ------------------------------------------------------------ search expressions

\* A text is the sequence of its characters; the fixed pieces of a search
\* expression are one element each.
QUOTE == "\""

BACKSLASH == "\\"

\* text.replace(/"/g, '\\"')
RECURSIVE EscapeQuotes(_)
EscapeQuotes(text) ==
    IF text = <<>> THEN <<>>
    ELSE (IF Head(text) = QUOTE THEN <<BACKSLASH, QUOTE>> ELSE <<Head(text)>>)
         \o EscapeQuotes(Tail(text))

\* `field:"${value}"`
Clause(field, value) == <<field, QUOTE>> \o value \o <<QUOTE>>

buildDrugSearch(drugName) ==
    LET escapedName == EscapeQuotes(drugName)
    IN  <<"(">>
        \o Clause("patient.drug.openfda.brand_name:", escapedName)
        \o <<"+OR+">>
        \o Clause("patient.drug.openfda.generic_name:", escapedName)
        \o <<"+OR+">>
        \o Clause("patient.drug.medicinalproduct:", escapedName)
        \o <<")">>

\* An optional text is truthy when it is given and not empty.
TruthyText(o) == o # <<>> /\ o[1] # <<>>

buildDateRangeSearch(startDate, endDate) ==
    IF ~TruthyStr(startDate) /\ ~TruthyStr(endDate) THEN <<>>
    ELSE <<"+AND+receivedate:[", StrOr(startDate, "19000101"), "+TO+",
           StrOr(endDate, "29991231"), "]">>

\* The search of search_adverse_events.
searchAdverseEventsSearch(args) ==
    buildDrugSearch(args.drug_name)
    \o (IF TruthyText(args.reaction)
        THEN <<"+AND+">> \o Clause("patient.reaction.reactionmeddrapt:", args.reaction[1])
        ELSE <<>>)
    \o (IF TruthyStr(args.start_date) \/ TruthyStr(args.end_date)
        THEN buildDateRangeSearch(args.start_date, args.end_date)
        ELSE <<>>)
    \o (IF args.serious THEN <<"+AND+serious:1">> ELSE <<>>)

\* The search of search_by_reaction.
searchByReactionSearch(args) ==
    Clause("patient.reaction.reactionmeddrapt:", args.reaction)

\* The label search of get_drug_label_info, compare_label_to_reports,
\* get_safety_summary and get_pregnancy_lactation_info.
labelSearch(args) ==
    LET escapedName == EscapeQuotes(args.drug_name)
    IN  <<"(">> \o Clause("openfda.brand_name:", escapedName)
        \o <<"+OR+">> \o Clause("openfda.generic_name:", escapedName)
        \o <<")">>

\* The search of get_recall_info.
recallInfoSearch(args) ==
    LET escapedName == EscapeQuotes(args.drug_name)
    IN  <<"(">> \o Clause("product_description:", escapedName)
        \o <<"+OR+">> \o Clause("openfda.brand_name:", escapedName)
        \o <<"+OR+">> \o Clause("openfda.generic_name:", escapedName)
        \o <<")">>
        \o (IF TruthyText(args.classification)
            THEN <<"+AND+">> \o Clause("classification:", args.classification[1])
            ELSE <<>>)
        \o (IF TruthyText(args.status)
            THEN <<"+AND+">> \o Clause("status:", args.status[1])
            ELSE <<>>)

\* The recall search of get_safety_summary.
recallSearch(args) ==
    LET escapedName == EscapeQuotes(args.drug_name)
    IN  <<"(">> \o Clause("product_description:", escapedName)
        \o <<"+OR+">> \o Clause("openfda.brand_name:", escapedName)
        \o <<")">>

\* The search of search_by_indication.
indicationSearch(args) ==
    Clause("patient.drug.drugindication:", EscapeQuotes(args.indication))

\* The search of search_by_drug_class.
drugClassSearch(args) ==
    Clause("patient.drug.openfda.pharm_class_epc:", EscapeQuotes(args.drug_class))
    \o (IF args.serious_only THEN <<"+AND+serious:1">> ELSE <<>>)

\* The user texts: plain, with a double quote inside, a double quote alone.
Texts == { <<"a">>, <<"a", QUOTE, "b">>, <<QUOTE>> }

OptionalTexts == {Undefined} \cup {Some(t) : t \in Texts}

DateInputs == {Undefined, Some("20240101")}

\* The places where a search expression is built, with the arguments that
\* reach them: validateInput has passed, so the required text is not empty.
SearchInputs ==
    { [site |-> "search_adverse_events",
       args |-> [drug_name |-> d, reaction |-> r, start_date |-> s,
                 end_date |-> Undefined, serious |-> f]] :
        d \in Texts, r \in OptionalTexts, s \in DateInputs, f \in BOOLEAN }
    \cup { [site |-> "search_by_reaction", args |-> [reaction |-> r]] :
             r \in Texts }
    \cup { [site |-> st, args |-> [drug_name |-> d]] :
             st \in {"get_event_counts", "get_drug_label_info",
                     "get_safety_summary_recalls"},
             d \in Texts }
    \cup { [site |-> "get_recall_info",
            args |-> [drug_name |-> d, classification |-> c, status |-> s]] :
             d \in Texts, c \in OptionalTexts, s \in OptionalTexts }
    \cup { [site |-> "search_by_indication", args |-> [indication |-> i]] :
             i \in Texts }
    \cup { [site |-> "search_by_drug_class",
            args |-> [drug_class |-> c, serious_only |-> f]] :
             c \in Texts, f \in BOOLEAN }

SearchOf(site, args) ==
    CASE site = "search_adverse_events" -> searchAdverseEventsSearch(args)
      [] site = "search_by_reaction" -> searchByReactionSearch(args)
      [] site = "get_event_counts" -> buildDrugSearch(args.drug_name)
      [] site = "get_drug_label_info" -> labelSearch(args)
      [] site = "get_safety_summary_recalls" -> recallSearch(args)
      [] site = "get_recall_info" -> recallInfoSearch(args)
      [] site = "search_by_indication" -> indicationSearch(args)
      [] site = "search_by_drug_class" -> drugClassSearch(args)

\* A handler builds its search expression.
BuildSearch(inp) ==
    /\ eval = NoEval
    /\ eval' = [op |-> "search", site |-> inp.site, args |-> inp.args,
                out |-> SearchOf(inp.site, inp.args)]
    /\ UNCHANGED <<transports, toolVars, httpVars, limiter, checks, clock>>

\* ------------------------------------------------------------ rate limiter

\* The window of 60000 ms, in units of 20 seconds.
WINDOW == 3

ClientIds == {"client1", "client2"}

\* new TestRateLimiter(max)
TestRateLimiter(max) ==
    [maxRequests |-> max, requests |-> [k \in ClientIds |-> Undefined]]

\* reqs.filter(t => t > now - 60000)
RECURSIVE Filter(_, _)
Filter(ts, t0) ==
    IF ts = <<>> THEN <<>>
    ELSE (IF Head(ts) > t0 - WINDOW THEN <<Head(ts)>> ELSE <<>>)
         \o Filter(Tail(ts), t0)

\* `this.requests.get(clientId) || []`
RequestsOf(lim, clientId) ==
    IF lim.requests[clientId] = Undefined THEN <<>> ELSE lim.requests[clientId][1]

checkCountingRejected(lim, clientId, t0) ==
    LET filtered == Filter(RequestsOf(lim, clientId), t0)
        pushed == [lim EXCEPT !.requests[clientId] = Some(Append(filtered, t0))]
    IN  IF Len(filtered) >= lim.maxRequests
        THEN [result |-> FALSE, limiter |-> pushed]
        ELSE [result |-> TRUE, limiter |-> pushed]

\* check(clientId) at the time t0: the result and the limiter afterwards.
check(lim, clientId, t0) ==
    LET filtered == Filter(RequestsOf(lim, clientId), t0)
    IN  IF Len(filtered) >= lim.maxRequests
        THEN [result |-> FALSE, limiter |-> lim]
        ELSE [result |-> TRUE,
              limiter |-> [lim EXCEPT !.requests[clientId] =
                                          Some(Append(filtered, t0))]]

\* A caller runs limiter.check(clientId).
Check(clientId) ==
    /\ Len(checks) < MaxChecks
    /\ limiter' = check(limiter, clientId, clock).limiter
    /\ checks' = Append(checks, [clientId |-> clientId, at |-> clock,
                                 result |-> check(limiter, clientId, clock).result])
    /\ UNCHANGED <<transports, toolVars, httpVars, eval, clock>>

\* Time passes.
ClockTick ==
    /\ clock < MaxClock
    /\ clock' = clock + 1
    /\ UNCHANGED <<transports, toolVars, httpVars, eval, limiter, checks>>

\* ------------------------------------------------------------ reporting trends

\* A date YYYYMMDD of a count response is its year and its month; the day
\* plays no part.  A period label is the sequence of its pieces.
DateOf(year, month) == [year |-> year, month |-> month]

\* Math.ceil(parseInt(month) / 3)
Quarter(month) == (month + 2) \div 3

periodFloorQuarter(granularity, dateStr) ==
    CASE granularity = "year" -> <<dateStr.year>>
      [] granularity = "month" -> <<dateStr.year, "-", dateStr.month>>
      [] OTHER -> <<dateStr.year, "-Q", dateStr.month \div 3>>

\* The switch over the granularity: the period of one date.
period(granularity, dateStr) ==
    CASE granularity = "year" -> <<dateStr.year>>
      [] granularity = "month" -> <<dateStr.year, "-", dateStr.month>>
      [] OTHER -> <<dateStr.year, "-Q", Quarter(dateStr.month)>>

\* a.localeCompare(b) < 0 on two labels of the same granularity: the years
\* have four digits and the months two.
LocaleLess(a, b) ==
    \/ a[1] < b[1]
    \/ a[1] = b[1] /\ Len(a) = 3 /\ a[3] < b[3]

\* `aggregated[period] = (aggregated[period] || 0) + item.count` on the
\* entries of aggregated, kept in the order of insertion.
Add(entries, p, count) ==
    IF \E i \in DOMAIN entries : entries[i].period = p
    THEN [i \in DOMAIN entries |->
            IF entries[i].period = p
            THEN [period |-> p, count |-> entries[i].count + count]
            ELSE entries[i]]
    ELSE Append(entries, [period |-> p, count |-> count])

\* The loop over data.results; an item without a date is skipped.
RECURSIVE aggregated(_, _, _)
aggregated(granularity, results, entries) ==
    IF results = <<>> THEN entries
    ELSE aggregated(granularity, Tail(results),
             IF Head(results).time = Undefined THEN entries
             ELSE Add(entries, period(granularity, Head(results).time[1]),
                      Head(results).count))

ByPeriod(a, b) == LocaleLess(a.period, b.period)

\* Object.entries(aggregated).sort(([a], [b]) => a.localeCompare(b))
sortedTrends(granularity, results) ==
    SortSeq(aggregated(granularity, results, <<>>), ByPeriod)

\* `args.granularity || "quarter"`
GranularityInputs ==
    {Undefined, Some("year"), Some("month"), Some("quarter"), Some("week")}

\* The items of the count over receivedate: a day of December 2023, of
\* January, March or April 2024, or an item without a date, with its count.
TrendItems ==
    { [time |-> Some(d), count |-> n] :
        d \in {DateOf(2023, 12), DateOf(2024, 1), DateOf(2024, 3),
               DateOf(2024, 4)},
        n \in 1..2 }
    \cup {[time |-> Undefined, count |-> 1]}

TrendResults == UNION {[1..n -> TrendItems] : n \in 1..MaxItems}

\* get_reporting_trends formats the response to its request.
AggregateTrends(g, results) ==
    /\ eval = NoEval
    /\ eval' = [op |-> "trends", granularity |-> StrOr(g, "quarter"),
                results |-> results,
                out |-> sortedTrends(StrOr(g, "quarter"), results)]
    /\ UNCHANGED <<transports, toolVars, httpVars, limiter, checks, clock>>

\* ------------------------------------------------------------ ratios

\* Math.round(n / d) for n >= 0: the nearest integer, a half rounded up; no
\* finite number when d is 0.
Round(n, d) == IF d = 0 THEN Undefined ELSE Some((2 * n + d) \div (2 * d))

\* A rendered ratio left:right, both sides in hundredths, or the text "N/A";
\* divisors are the denominators of the divisions that were evaluated.
RatioOf(left100, right100, divisors) ==
    [text |-> "ratio", left100 |-> left100, right100 |-> right100,
     divisors |-> divisors]

NotAvailable == [text |-> "N/A", left100 |-> Undefined, right100 |-> Undefined,
                 divisors |-> {}]

Hundreds(o) == IF o = Undefined THEN Undefined ELSE Some(100 * o[1])

pediatricReportRatioUnguarded(pediatricTotalReports, adultTotalReports) ==
    RatioOf(Some(100), Hundreds(Round(adultTotalReports, pediatricTotalReports)),
            {pediatricTotalReports})

\* `1:${Math.round(adultTotalReports / pediatricTotalReports)}` or "N/A"
pediatricReportRatio(pediatricTotalReports, adultTotalReports) ==
    IF pediatricTotalReports > 0 /\ adultTotalReports > 0
    THEN RatioOf(Some(100),
                 Hundreds(Round(adultTotalReports, pediatricTotalReports)),
                 {pediatricTotalReports})
    ELSE NotAvailable

\* `${Math.round(geriatricTotalReports / adultTotalReports * 100) / 100}:1`
\* or "N/A"
geriatricReportRatio(geriatricTotalReports, adultTotalReports) ==
    IF geriatricTotalReports > 0 /\ adultTotalReports > 0
    THEN RatioOf(Round(100 * geriatricTotalReports, adultTotalReports),
                 Some(100), {adultTotalReports})
    ELSE NotAvailable

\* `total > 0 ? Math.round((serious / total) * 100) : 0`
seriousPercentage(seriousCount, totalReports) ==
    IF totalReports > 0
    THEN [value |-> Round(100 * seriousCount, totalReports),
          divisors |-> {totalReports}]
    ELSE [value |-> Some(0), divisors |-> {}]

\* The totals of the count responses: `meta?.results?.total || 0`.
Totals == 0..4

AgeGroupTools == {"get_pediatric_safety", "get_geriatric_safety"}

\* An age-group handler computes its ratio and its percentage.
FormatAgeGroup(tool, total, serious, adult) ==
    /\ eval = NoEval
    /\ eval' = [op |-> "age_group", tool |-> tool, total |-> total,
                serious |-> serious, adult |-> adult,
                report_ratio |->
                    IF tool = "get_pediatric_safety"
                    THEN pediatricReportRatio(total, adult)
                    ELSE geriatricReportRatio(total, adult),
                serious_percentage |-> seriousPercentage(serious, total)]
    /\ UNCHANGED <<transports, toolVars, httpVars, limiter, checks, clock>>

\* ------------------------------------------------------------ label comparison

\* `reactionLower.includes(lr) || lr.includes(reactionLower)` for some term
\* of the label.
onLabel(reaction, labelAdverseReactions) ==
    \E k \in DOMAIN labelAdverseReactions :
        \/ Includes(LowerWords(reaction), LowerWords(labelAdverseReactions[k]))
        \/ Includes(LowerWords(labelAdverseReactions[k]), LowerWords(reaction))

\* array.filter(keep)
RECURSIVE FilterOnLabel(_, _)
FilterOnLabel(comparison, keep) ==
    IF comparison = <<>> THEN <<>>
    ELSE (IF Head(comparison).on_label = keep THEN <<Head(comparison)>> ELSE <<>>)
         \o FilterOnLabel(Tail(comparison), keep)

\* Step 3 of handleCompareLabelToReports on the reactions of the label and
\* the reactions of the reports.
Compare(labelAdverseReactions, results) ==
    LET comparison ==
            [i \in DOMAIN results |->
                [reaction |-> results[i],
                 on_label |-> onLabel(results[i], labelAdverseReactions)]]
        labeledReactions == FilterOnLabel(comparison, TRUE)
        potentialSignals == FilterOnLabel(comparison, FALSE)
    IN  [message |-> FALSE,
         total_reactions_analyzed |-> Len(comparison),
         labeled_reactions_found |-> Len(labeledReactions),
         potential_signals_found |-> Len(potentialSignals),
         signal_percentage |-> Round(100 * Len(potentialSignals), Len(comparison)),
         divisors |-> {Len(comparison)},
         labeled_reactions |-> labeledReactions,
         potential_signals |-> potentialSignals]

compareLabelToReportsNoEarlyReturn(labelAdverseReactions, results) ==
    Compare(labelAdverseReactions, results)

\* handleCompareLabelToReports from the FAERS response on: the "no reports"
\* message for an empty response, the comparison otherwise.
compareLabelToReports(labelAdverseReactions, results) ==
    IF results = <<>>
    THEN [message |-> TRUE, divisors |-> {}]
    ELSE Compare(labelAdverseReactions, results)

\* What the label step leaves in labelAdverseReactions: nothing when the
\* lookup fails or finds no label, the terms taken from the label otherwise.
LabelSteps ==
    { [found |-> FALSE, labelAdverseReactions |-> <<>>],
      [found |-> TRUE,  labelAdverseReactions |-> <<>>],
      [found |-> TRUE,  labelAdverseReactions |-> << <<"Nausea">> >>],
      [found |-> TRUE,  labelAdverseReactions |->
                            << <<"Severe", "headache">>, <<"Nausea">> >>] }

\* The terms of the count over reactions.
ReactionTerms ==
    { <<"NAUSEA">>, <<"HEADACHE">>, <<"RASH">>, <<"SEVERE", "NAUSEA">> }

ReactionResults == UNION {[1..n -> ReactionTerms] : n \in 0..MaxItems}

\* compare_label_to_reports formats the two responses.
FormatComparison(label, results) ==
    /\ eval = NoEval
    /\ eval' = [op |-> "compare", label |-> label, results |-> results,
                out |-> compareLabelToReports(label.labelAdverseReactions, results)]
    /\ UNCHANGED <<transports, toolVars, httpVars, limiter, checks, clock>>

\* ------------------------------------------------------------ registry

ToolNotReadOnly(name, required) ==
    [name |-> name, required |-> required, readOnlyHint |-> FALSE,
     destructiveHint |-> FALSE, openWorldHint |-> TRUE]

Tool(name, required) ==
    [name |-> name, required |-> required, readOnlyHint |-> TRUE,
     destructiveHint |-> FALSE, openWorldHint |-> TRUE]

\* The catalog: each descriptor's name, required parameters and annotations.
TOOLS ==
    << Tool("search_adverse_events", {"drug_name"}),
       Tool("get_event_counts", {"drug_name", "group_by"}),
       Tool("compare_safety_profiles", {"drug_names"}),
       Tool("get_serious_events", {"drug_name"}),
       Tool("get_reporting_trends", {"drug_name"}),
       Tool("search_by_reaction", {"reaction"}),
       Tool("get_concomitant_drugs", {"drug_name"}),
       Tool("get_data_info", {}),
       Tool("get_drug_label_info", {"drug_name"}),
       Tool("get_recall_info", {"drug_name"}),
       Tool("search_by_indication", {"indication"}),
       Tool("search_by_drug_class", {"drug_class"}),
       Tool("compare_label_to_reports", {"drug_name"}),
       Tool("get_pediatric_safety", {"drug_name"}),
       Tool("get_geriatric_safety", {"drug_name"}),
       Tool("get_safety_summary", {"drug_name"}),
       Tool("get_pregnancy_lactation_info", {"drug_name"}) >>

ToolNames == {TOOLS[i].name : i \in DOMAIN TOOLS}

Descriptor(name) == TOOLS[CHOOSE i \in DOMAIN TOOLS : TOOLS[i].name = name]

\* The parameters the input schemas declare with type "string".
StringParams == {"drug_name", "reaction", "indication", "drug_class", "group_by"}

\* The enumerations the input schemas declare for the group-by and the
\* classification parameters.
SchemaEnum(name, param) ==
    CASE name = "get_event_counts" /\ param = "group_by" ->
             {"reaction", "outcome", "age", "sex", "country", "reporter_type", "route"}
      [] name = "get_recall_info" /\ param = "classification" ->
             {"Class I", "Class II", "Class III"}
      [] name = "search_by_indication" /\ param = "group_by" -> {"drug", "reaction"}
      [] name = "search_by_drug_class" /\ param = "group_by" -> {"drug", "reaction"}

EnumParams ==
    { <<"get_event_counts", "group_by">>, <<"get_recall_info", "classification">>,
      <<"search_by_indication", "group_by">>, <<"search_by_drug_class", "group_by">> }

\* The list-tools handler answers with the catalog.
ListToolsRequest ==
    /\ eval' = [op |-> "tools/list", tools |-> TOOLS]
    /\ UNCHANGED <<transports, toolVars, httpVars, limiter, checks, clock>>

\* ------------------------------------------------------------ inputs

\* Values of a required string parameter: missing, empty, a name.
StringInputs == {Undefined, Some(""), Some("aspirin")}

\* Values of a limit parameter: missing, zero, in range, above the documented
\* maximum of 100, negative.
LimitInputs == {Undefined, Some(0), Some(5), Some(200), Some(-1)}

\* Values of include_adult_comparison, include_label_warnings, include_recalls.
FlagInputs == {Undefined, Some(FALSE)}

\* Values of drug_names: missing, and lists of 0, 1, 2 and 6 names, one with
\* an empty name.
DrugNamesInputs ==
    {Undefined, Some(<< >>), Some(<<Some("aspirin")>>),
     Some(<<Some("aspirin"), Some("ibuprofen")>>),
     Some(<<Some("aspirin"), Some("")>>),
     Some(<<Some("a"), Some("b"), Some("c"), Some("d"), Some("e"), Some("f")>>)}

Call(name, args) == [name |-> name, args |-> args]

With1(k1, v1) == [NoArgs EXCEPT ![k1] = v1]

With2(k1, v1, k2, v2) == [NoArgs EXCEPT ![k1] = v1, ![k2] = v2]

With3(k1, v1, k2, v2, k3, v3) == [NoArgs EXCEPT ![k1] = v1, ![k2] = v2, ![k3] = v3]

\* The calls a client makes: every tool of the catalog with its required
\* parameter missing, empty and given, its enumerated and numeric parameters
\* inside and outside their documented ranges, and names that are no tool.
ToolInputs ==
    {Call("unknown_tool", NoArgs), Call("", NoArgs), Call("toString", NoArgs)}
    \cup {Call("search_adverse_events", With2("drug_name", d, "limit", l)) :
            d \in StringInputs, l \in LimitInputs}
    \cup {Call("get_event_counts", With3("drug_name", d, "group_by", g, "limit", l)) :
            d \in StringInputs,
            g \in {Undefined, Some(""), Some("sex"), Some("reaction"),
                   Some("invalid_field"), Some("constructor")},
            l \in {Undefined, Some(200)}}
    \cup {Call("compare_safety_profiles", With1("drug_names", ds)) :
            ds \in DrugNamesInputs}
    \cup {Call(n, With1("drug_name", d)) :
            n \in {"get_serious_events", "get_reporting_trends",
                   "get_concomitant_drugs", "get_drug_label_info",
                   "compare_label_to_reports", "get_pregnancy_lactation_info"},
            d \in StringInputs}
    \cup {Call("search_by_reaction", With1("reaction", d)) : d \in StringInputs}
    \cup {Call("get_data_info", NoArgs)}
    \cup {Call("get_recall_info", With2("drug_name", d, "classification", k)) :
            d \in StringInputs,
            k \in {Undefined, Some("Class I"), Some("Class IV")}}
    \cup {Call("search_by_indication", With2("indication", d, "group_by", g)) :
            d \in StringInputs,
            g \in {Undefined, Some("drug"), Some("reaction"), Some("invalid_field")}}
    \cup {Call("search_by_drug_class", With2("drug_class", d, "group_by", g)) :
            d \in StringInputs,
            g \in {Undefined, Some("drug"), Some("reaction"), Some("invalid_field")}}
    \cup {Call(n, With2("drug_name", d, "include_adult_comparison", f)) :
            n \in {"get_pediatric_safety", "get_geriatric_safety"},
            d \in StringInputs, f \in FlagInputs}
    \cup {Call("get_safety_summary",
               With3("drug_name", d, "include_label_warnings", f,
                     "include_recalls", g)) :
            d \in StringInputs, f \in FlagInputs, g \in FlagInputs}

HttpRequestOf(method, path, authorization, session_header) ==
    [method |-> method, path |-> path, authorization |-> authorization,
     session_header |-> session_header]

\* Authorization headers: none, well-formed ones in two letter cases, another
\* scheme, an empty token, three parts.
AuthorizationInputs ==
    { Undefined,
      Some(<<"Bearer", " ", "tok1">>),
      Some(<<"BEARER", " ", "tok2">>),
      Some(<<"Basic", " ", "tok1">>),
      Some(<<"Bearer", " ">>),
      Some(<<"Bearer", " ", "tok1", " ", "tok2">>) }

HttpInputs ==
    { HttpRequestOf("POST", MCP_PATH, a, h) :
          a \in AuthorizationInputs, h \in {Undefined, Some("s1")} }
    \cup { HttpRequestOf("OPTIONS", MCP_PATH, a, Undefined) :
          a \in {Undefined, Some(<<"Bearer", " ", "tok1">>)} }
    \cup { HttpRequestOf(m, HEALTH_PATH, Undefined, Undefined) : m \in {"GET", "POST"} }
    \cup { HttpRequestOf("GET", p, Undefined, Undefined) :
          p \in {DISCOVERY_PATH, "/"} }

\* ------------------------------------------------------------ specification

\* No HTTP request in flight, nothing cached, the clock at its start.
InitHttpIdle ==
    /\ reqs = [r \in 1..MaxRequests |-> IdleRequest]
    /\ sessions = [t \in Tokens |-> Undefined]
    /\ timers = {}
    /\ now = 0
    /\ eval = NoEval
    /\ limiter = TestRateLimiter(MaxLimit)
    /\ checks = <<>>
    /\ clock = 0

InitTools ==
    /\ calls = [c \in 1..MaxInFlight |-> IdleCall]
    /\ OPENFDA_API_KEY = Undefined
    /\ lookups = 0
    /\ transports = [s \in SessionIds |-> Undefined]

\* The process right after start in stdio mode: no call in flight, no API
\* key resolved yet, OPENFDA_API_KEY set in the environment or not.
Init ==
    /\ InitTools
    /\ env_key \in {Undefined, Some("key-from-env")}
    /\ oauth_enabled = FALSE
    /\ InitHttpIdle

\* Tool calls over the stdio transport, one at a time.
Next ==
    \/ \E inp \in ToolInputs : CallToolRequest(1, STDIO, inp)
    \/ \E o \in SecretOutcomes : SecretsGetReturn(1, o)
    \/ \E r \in Responses : FetchReturn(1, r)
    \/ CallToolRespond(1)
    \/ ListToolsRequest

Spec == Init /\ [][Next]_vars

\* The process right after start in HTTP mode, OAUTH_ENABLED set or not.
InitHttp ==
    /\ InitTools
    /\ env_key = Undefined
    /\ oauth_enabled \in BOOLEAN
    /\ InitHttpIdle

\* The requests to the HTTP server, several in flight at a time.
NextHttp ==
    \/ \E r \in 1..MaxRequests : \E req \in HttpInputs : HttpRequest(r, req)
    \/ \E r \in 1..MaxRequests : \E g \in GatewayResponses : GatewayReturn(r, g)
    \/ \E r \in 1..MaxRequests : ConnectReturn(r)
    \/ \E r \in 1..MaxRequests : HandleRequestReturn(r)
    \/ \E r \in 1..MaxRequests : HttpRespond(r)
    \/ \E s \in SessionIds : TransportClose(s)

SpecHttp == InitHttp /\ [][NextHttp]_vars

\* The /mcp requests of two clients with a bearer token each and of one
\* without, all on the session s1.
AuthInputs ==
    { HttpRequestOf("POST", MCP_PATH, a, Some("s1")) :
          a \in {Undefined, Some(<<"Bearer", " ", "tok1">>),
                 Some(<<"BEARER", " ", "tok2">>)} }

\* The process right after start in HTTP mode with OAUTH_ENABLED set.
InitAuth ==
    /\ InitTools
    /\ env_key = Undefined
    /\ oauth_enabled = TRUE
    /\ InitHttpIdle

\* The /mcp requests behind the bearer-token check while time passes and the
\* removal timers of the auth cache run.
NextAuth ==
    \/ \E r \in 1..MaxRequests : \E req \in AuthInputs : HttpRequest(r, req)
    \/ \E r \in 1..MaxRequests : \E g \in GatewayResponses : GatewayReturn(r, g)
    \/ \E r \in 1..MaxRequests : ConnectReturn(r)
    \/ \E r \in 1..MaxRequests : HandleRequestReturn(r)
    \/ \E r \in 1..MaxRequests : HttpRespond(r)
    \/ Tick
    \/ \E tm \in timers : TimerFires(tm)

SpecAuth == InitAuth /\ [][NextAuth]_vars

\* The calls used where several are in flight: an unknown tool, a rejected
\* argument and a call that goes to the upstream.
ConcInputs ==
    { Call("unknown_tool", NoArgs),
      Call("search_adverse_events", With1("drug_name", Some(""))),
      Call("search_adverse_events", With1("drug_name", Some("aspirin"))) }

ConcHttpInputs == {HttpRequestOf("POST", MCP_PATH, Undefined, Some("s1"))}

\* HTTP mode without OAuth: requests open the session, and tool calls arrive
\* over its transport, several in flight at a time.
NextConc ==
    \/ \E req \in ConcHttpInputs : HttpRequest(1, req)
    \/ ConnectReturn(1)
    \/ HandleRequestReturn(1)
    \/ HttpRespond(1)
    \/ \E s \in SessionIds : TransportClose(s)
    \/ \E c \in 1..MaxInFlight : \E s \in SessionIds : \E inp \in ConcInputs :
          CallToolRequest(c, s, inp)
    \/ \E c \in 1..MaxInFlight : \E o \in SecretOutcomes : SecretsGetReturn(c, o)
    \/ \E c \in 1..MaxInFlight : \E r \in Responses : FetchReturn(c, r)
    \/ \E c \in 1..MaxInFlight : CallToolRespond(c)

SpecConc == Init /\ [][NextConc]_vars

\* The formatters of the handlers, applied to the values that reach them.
NextFn ==
    \/ \E site \in DecodingSites : \E term \in Terms : FormatTerm(site, term)
    \/ \E inp \in SearchInputs : BuildSearch(inp)
    \/ \E g \in GranularityInputs : \E results \in TrendResults :
           AggregateTrends(g, results)
    \/ \E tool \in AgeGroupTools : \E total, serious, adult \in Totals :
           FormatAgeGroup(tool, total, serious, adult)
    \/ \E label \in LabelSteps : \E results \in ReactionResults :
           FormatComparison(label, results)

\* No formatter has run; the process state plays no part.
InitFn ==
    /\ InitTools
    /\ env_key = Undefined
    /\ oauth_enabled = FALSE
    /\ InitHttpIdle

SpecFn == InitFn /\ [][NextFn]_vars

\* A rate limiter right after construction, with the limit it was given.
InitLimiter ==
    /\ InitTools
    /\ env_key = Undefined
    /\ oauth_enabled = FALSE
    /\ reqs = [r \in 1..MaxRequests |-> IdleRequest]
    /\ sessions = [t \in Tokens |-> Undefined]
    /\ timers = {}
    /\ now = 0
    /\ eval = NoEval
    /\ \E max \in 1..MaxLimit : limiter = TestRateLimiter(max)
    /\ checks = <<>>
    /\ clock = 0

\* Callers check the limiter while time passes.
NextLimiter ==
    \/ \E clientId \in ClientIds : Check(clientId)
    \/ ClockTick

SpecLimiter == InitLimiter /\ [][NextLimiter]_vars

\* ------------------------------------------------------------ properties

Slots == DOMAIN calls

Started(c) == calls[c].pc # "idle"

Finished(c) == calls[c].pc = "done"

Failed(c) == Finished(c) /\ calls[c].response[1].isError

Succeeded(c) == Finished(c) /\ ~calls[c].response[1].isError

\* The call has issued a GET or has looked the API key up in the secret store.
Outbound(c) == Len(calls[c].sent) > 0 \/ calls[c].lookups > 0

Message(c) == calls[c].thrown[1].message

\* C1: a call whose name is not in the catalog ends at once in an error whose
\* message contains "unknown tool" (in any letter case) and the name, and it
\* issues no GET and no secret-store lookup.
C1_UnknownToolRejected ==
    \A c \in Slots :
        Started(c) /\ calls[c].name \notin ToolNames =>
            /\ Failed(c)
            /\ Includes(LowerWords(Message(c)), <<"unknown", "tool">>)
            /\ Includes(Message(c), <<calls[c].name>>)
            /\ ~Outbound(c)

C1_Witness ==
    \E c \in Slots : calls[c].name = "unknown_tool" /\ Failed(c) /\ ~Outbound(c)

\* The required parameters of the tool that the schema types as strings.
RequiredStrings(name) == Descriptor(name).required \cap StringParams

Blank(v) == v = Undefined \/ v = Some("")

\* C2: a call of a catalog tool with a required string parameter missing or
\* empty ends at once in an error, without a GET or a secret-store lookup.
C2_RequiredStringValidated ==
    \A c \in Slots :
        /\ Started(c)
        /\ calls[c].name \in ToolNames
        /\ \E p \in RequiredStrings(calls[c].name) : Blank(calls[c].args[p])
        => Failed(c) /\ ~Outbound(c)

C2_Witness ==
    \E c \in Slots :
        /\ calls[c].name = "search_by_reaction"
        /\ calls[c].args.reaction = Some("")
        /\ Failed(c) /\ ~Outbound(c)

\* C3: search_adverse_events with a valid drug name and a limit of 0 or above
\* 100 ends in an error that mentions "limit" and issues no request.
C3_LimitOutOfRangeRejected ==
    \A c \in Slots :
        /\ Started(c)
        /\ calls[c].name = "search_adverse_events"
        /\ ~Blank(calls[c].args.drug_name)
        /\ calls[c].args.limit # Undefined
        /\ (calls[c].args.limit[1] = 0 \/ calls[c].args.limit[1] > 100)
        => /\ Failed(c)
           /\ Includes(LowerWords(Message(c)), <<"limit">>)
           /\ Len(calls[c].sent) = 0

\* C4: a call that supplies a value outside the schema's enumeration for a
\* group-by or classification parameter ends in an error before any GET.
C4_EnumValidated ==
    \A c \in Slots : \A e \in EnumParams :
        /\ Started(c)
        /\ calls[c].name = e[1]
        /\ \A p \in RequiredStrings(e[1]) \ {e[2]} : ~Blank(calls[c].args[p])
        /\ calls[c].args[e[2]] # Undefined
        /\ calls[c].args[e[2]][1] \notin SchemaEnum(e[1], e[2])
        => Failed(c) /\ Len(calls[c].sent) = 0

\* The i-th GET of call c has been answered with a response of this kind.
Answered(c, i, kind) == i \in DOMAIN calls[c].resps /\ calls[c].resps[i].kind = kind

\* The i-th response is the last one the call received: the handler ended on
\* it rather than going on to another GET.
EndedOn(c, i) == Finished(c) /\ i = Len(calls[c].resps)

\* The tools whose only GET goes to the label or the enforcement endpoint.
LabelOrRecallTools ==
    {"get_drug_label_info", "get_recall_info", "get_pregnancy_lactation_info"}

\* The tools that read the label or the enforcement endpoint as an optional
\* extra to their adverse-event queries.
OptionalLookupTools == {"compare_label_to_reports", "get_safety_summary"}

\* C5 as stated: whenever a GET of a finished call was answered by an error
\* envelope, the call failed with an error that carries the envelope's message.
C5_ErrorEnvelopeAlwaysRaised ==
    \A c \in Slots : \A i \in DOMAIN calls[c].resps :
        Finished(c) /\ Answered(c, i, "error") =>
            Failed(c) /\ Includes(Message(c), <<calls[c].resps[i].msg>>)

\* C5: an error envelope from the adverse-event endpoint makes the call fail
\* with the "FAERS API Error" error that carries the envelope's message; an
\* error envelope from the label or the enforcement endpoint never does: the
\* label and recall tools return their "no results" object, and the tools
\* that read those endpoints as an extra go on without the data.
C5_ErrorEnvelope ==
    \A c \in Slots : \A i \in DOMAIN calls[c].resps :
        Finished(c) /\ Answered(c, i, "error") =>
            IF calls[c].sent[i].baseUrl = OPENFDA_FAERS_URL
            THEN /\ EndedOn(c, i)
                 /\ Failed(c)
                 /\ calls[c].thrown[1] =
                        McpError("InternalError",
                                 <<"FAERS", "API", "Error", ":", calls[c].resps[i].msg>>)
            ELSE /\ calls[c].name \in LabelOrRecallTools \cup OptionalLookupTools
                 /\ calls[c].name \in LabelOrRecallTools =>
                        Succeeded(c) /\ "message" \in calls[c].response[1].keys
                 /\ calls[c].name \in OptionalLookupTools =>
                        ~EndedOn(c, i) \/ Succeeded(c)

C5_Witness ==
    \E c \in Slots :
        /\ Failed(c)
        /\ Answered(c, Len(calls[c].resps), "error")
        /\ calls[c].sent[Len(calls[c].resps)].baseUrl = OPENFDA_FAERS_URL
        /\ Includes(Message(c), <<"FAERS", "API", "Error">>)

\* C6 as stated: whenever a GET of a finished call failed at the transport,
\* the call failed with a "Failed to fetch" error that carries the cause.
C6_TransportFailureAlwaysRaised ==
    \A c \in Slots : \A i \in DOMAIN calls[c].resps :
        Finished(c) /\ Answered(c, i, "fail") =>
            /\ Failed(c)
            /\ Includes(Message(c), <<"Failed", "to", "fetch">>)
            /\ Includes(Message(c), <<calls[c].resps[i].msg>>)

\* The GETs whose transport failure the handler swallows: the label GET of
\* compare_label_to_reports and the label and recall GETs of
\* get_safety_summary.
Swallowed(c, i) ==
    /\ calls[c].name \in OptionalLookupTools
    /\ calls[c].sent[i].baseUrl # OPENFDA_FAERS_URL

\* C6: a transport failure of a GET makes the call fail with an internal
\* error "Failed to fetch ...: <cause>", except for the swallowed GETs, after
\* which the handler goes on and the failure is not what ends the call.
C6_TransportFailure ==
    \A c \in Slots : \A i \in DOMAIN calls[c].resps :
        Finished(c) /\ Answered(c, i, "fail") =>
            IF Swallowed(c, i)
            THEN ~EndedOn(c, i) \/ Succeeded(c)
            ELSE /\ EndedOn(c, i)
                 /\ Failed(c)
                 /\ calls[c].thrown[1].code = "InternalError"
                 /\ Includes(Message(c), <<"Failed", "to", "fetch">>)
                 /\ Message(c)[Len(Message(c))] = calls[c].resps[i].msg

C6_Witness ==
    \E c \in Slots :
        /\ Failed(c)
        /\ calls[c].name = "get_recall_info"
        /\ Answered(c, 1, "fail")
        /\ Includes(Message(c), <<"Failed", "to", "fetch">>)

\* Every GET of the call was answered by an envelope without results.
AllEmpty(c) ==
    /\ Len(calls[c].resps) > 0
    /\ \A i \in DOMAIN calls[c].resps : calls[c].resps[i].kind = "empty"

\* C7 as stated: a call all of whose GETs found nothing succeeds with an
\* object that has a message field.
C7_EmptyAlwaysHasMessage ==
    \A c \in Slots :
        Finished(c) /\ AllEmpty(c) =>
            Succeeded(c) /\ "message" \in calls[c].response[1].keys

\* The tools that return their regular structure, without a message field,
\* when nothing is found.
NoMessageTools ==
    {"compare_safety_profiles", "get_data_info", "get_pediatric_safety",
     "get_geriatric_safety", "get_safety_summary"}

\* C7: a call all of whose GETs found nothing never fails; it returns an
\* object with a message field unless the tool is one of the aggregating
\* tools, which return their regular structure without one.
C7_EmptyResults ==
    \A c \in Slots :
        Finished(c) /\ AllEmpty(c) =>
            /\ Succeeded(c)
            /\ "message" \in calls[c].response[1].keys
                   <=> calls[c].name \notin NoMessageTools

C7_Witness ==
    \E c \in Slots :
        /\ calls[c].name = "get_serious_events"
        /\ Finished(c) /\ AllEmpty(c)
        /\ Succeeded(c) /\ "message" \in calls[c].response[1].keys

\* The call threw: handleTool ended in an error.
Threw(c) == Finished(c) /\ calls[c].thrown # Undefined

\* Every thrown error has become an isError response whose text is the
\* error's message, and calls with the same name, arguments and upstream
\* responses have the same response whatever else was in flight.
C8_ErrorsConverted ==
    /\ \A c \in Slots :
          Threw(c) =>
              /\ calls[c].response[1].isError
              /\ calls[c].response[1].text = <<"Error", ":">> \o Message(c)
    /\ \A c, d \in Slots :
          /\ Finished(c) /\ Finished(d)
          /\ calls[c].name = calls[d].name
          /\ calls[c].args = calls[d].args
          /\ calls[c].resps = calls[d].resps
          => calls[c].response = calls[d].response

\* The step in which a call fails leaves the transports and every other call
\* as they are.
C8_FailureIsLocal ==
    \A c \in Slots :
        calls[c].pc # "done" /\ calls'[c].pc = "done" /\ calls'[c].thrown # Undefined
        => /\ transports' = transports
           /\ \A d \in Slots \ {c} : calls'[d] = calls[d]

\* C8: every error a tool invocation throws is turned into a response with
\* isError = true and the message as text; the failing step leaves the
\* session's transport registered and usable and changes no other call in
\* flight, whose outcome depends on its own responses alone.
C8_FailedCallIsContained == [](C8_ErrorsConverted) /\ [][C8_FailureIsLocal]_vars

C8_Witness ==
    \E c, d \in Slots :
        /\ c # d
        /\ Threw(c) /\ calls[c].response[1].isError
        /\ calls[d].pc = "fetch"
        /\ calls[c].session = calls[d].session
        /\ transports[calls[c].session] # Undefined
        /\ transports[calls[c].session][1].ready

Requests == DOMAIN reqs

\* The request carried a bearer token that the auth cache or the gateway
\* accepted.
Accepted(r) ==
    /\ TruthyStr(reqs[r].token)
    /\ \/ reqs[r].session # Undefined
       \/ reqs[r].gateway # Undefined /\ reqs[r].gateway[1].kind = "ok"

\* The request got as far as the session's transport.
ReachedTransport(r) ==
    \/ reqs[r].pc \in {"connect", "handle"}
    \/ reqs[r].pc = "done" /\ reqs[r].sessionId # Undefined

\* C9 as stated: with OAuth on, an /mcp request reaches the transport only
\* with an accepted token, and every other /mcp request is answered 401.
C9_EveryOtherMcpRequestIs401 ==
    \A r \in Requests :
        oauth_enabled /\ reqs[r].path = MCP_PATH /\ reqs[r].pc # "idle" =>
            /\ ReachedTransport(r) => Accepted(r)
            /\ reqs[r].pc = "done" /\ ~Accepted(r) =>
                   reqs[r].status = 401 /\ reqs[r].sessionId = Undefined

\* With OAuth on, only accepted requests are beyond the authentication of
\* /mcp; a finished /mcp request that was not accepted has no session and a
\* 401, or a 204 if it is an OPTIONS request; GET /health never runs
\* authenticateRequest.
C9_AuthGate ==
    /\ \A r \in Requests :
          oauth_enabled /\ reqs[r].path = MCP_PATH /\ reqs[r].pc # "idle" =>
              /\ ReachedTransport(r) => Accepted(r) /\ reqs[r].method # "OPTIONS"
              /\ reqs[r].pc = "done" /\ ~Accepted(r) =>
                     /\ reqs[r].sessionId = Undefined
                     /\ IF reqs[r].method = "OPTIONS"
                        THEN reqs[r].status = 204 /\ reqs[r].auth = Undefined
                        ELSE reqs[r].status = 401
    /\ \A r \in Requests :
          reqs[r].pc # "idle" /\ reqs[r].path = HEALTH_PATH /\ reqs[r].method = "GET" =>
              /\ reqs[r].pc = "done" /\ reqs[r].status = 200
              /\ reqs[r].auth = Undefined /\ reqs[r].gateway = Undefined

\* The step that answers a request 401 or 204 registers no transport and adds
\* no entry to the auth cache.
C9_RejectionCreatesNothing ==
    \A r \in Requests :
        reqs[r].pc # "done" /\ reqs'[r].pc = "done" /\ reqs'[r].status \in {204, 401}
        => /\ transports' = transports
           /\ \A t \in Tokens : sessions'[t] = sessions[t] \/ sessions'[t] = Undefined

\* C9: with OAuth on, an /mcp request reaches the session transport only with
\* a bearer token that the auth cache or the gateway accepted; every other
\* /mcp request creates no session and is answered 401, except an OPTIONS
\* request, which is answered 204 before any authentication; GET /health is
\* answered 200 without an authentication check.
C9_McpRequiresAcceptedToken == [](C9_AuthGate) /\ [][C9_RejectionCreatesNothing]_vars

C9_Witness ==
    \E r1, r2 \in Requests :
        /\ oauth_enabled
        /\ reqs[r1].pc = "handle" /\ reqs[r1].session # Undefined
        /\ reqs[r2].pc = "done" /\ reqs[r2].path = MCP_PATH
        /\ reqs[r2].status = 401 /\ reqs[r2].gateway # Undefined

Is401(r) == reqs[r].pc = "done" /\ reqs[r].status = 401

\* The internal error the 401 was sent for.
InternalError(r) == reqs[r].auth[1].error[1]

\* The patterns the internal error matches.
Matched(error) ==
    {i \in DOMAIN safeMessages : Includes(LowerWords(error), safeMessages[i].pattern)}

\* The detail inside the internal error: the gateway's status code or the
\* text of the exception.
Detail(r) ==
    IF reqs[r].gateway = Undefined THEN << >>
    ELSE IF reqs[r].gateway[1].kind = "status" THEN <<reqs[r].gateway[1].status>>
    ELSE reqs[r].gateway[1].msg

SafeDescriptions ==
    {safeMessages[i].message : i \in DOMAIN safeMessages} \cup {DefaultSafeMessage}

ErrorDescription(r) == reqs[r].body[1].error_description

\* C10: two 401 responses whose internal errors match the same patterns have
\* the same error_description; every error_description is one of the six
\* fixed messages and contains neither the status code nor the exception
\* text of the internal error.
C10_SanitizedBody ==
    /\ \A r1, r2 \in Requests :
          /\ Is401(r1) /\ Is401(r2)
          /\ Matched(InternalError(r1)) = Matched(InternalError(r2))
          => reqs[r1].body = reqs[r2].body
    /\ \A r \in Requests :
          Is401(r) =>
              /\ reqs[r].body[1].error = "unauthorized"
              /\ ErrorDescription(r) \in SafeDescriptions
              /\ Detail(r) # << >> => ~Includes(ErrorDescription(r), Detail(r))

C10_Witness ==
    \E r1, r2 \in Requests :
        /\ Is401(r1) /\ Is401(r2)
        /\ reqs[r1].gateway # Undefined /\ reqs[r2].gateway # Undefined
        /\ InternalError(r1) # InternalError(r2)
        /\ Matched(InternalError(r1)) = Matched(InternalError(r2))
        /\ ErrorDescription(r1) = ErrorDescription(r2)

\* The tools whose data comes from the adverse-event endpoint.
FaersTools == ToolNames \ LabelOrRecallTools

\* C11: every successful response of a FAERS-sourced tool has a disclaimer
\* field, and every successful response of a label- or recall-sourced tool,
\* its "no results" response included, has a source field.
C11_DisclaimerOrSource ==
    \A c \in Slots :
        Succeeded(c) =>
            /\ calls[c].name \in FaersTools =>
                   "disclaimer" \in calls[c].response[1].keys
            /\ calls[c].name \in LabelOrRecallTools =>
                   "source" \in calls[c].response[1].keys

\* The coded dimensions and the codes that have a label.
CodedDimensions == {"sex", "outcome", "reporter_type"}

CodesOf(dimension) ==
    CASE dimension = "sex" -> 1..2
      [] dimension = "outcome" -> 1..6
      [] dimension = "reporter_type" -> 1..5

\* A term of a coded dimension has been formatted.
Decoded == eval.op = "decode" /\ eval.site.dimension \in CodedDimensions

IsLabel(out) == out.text # Undefined /\ out.term = Undefined

\* A code that has a label came out as its label.
MappedGivesLabel ==
    /\ IsLabel(eval.out)
    /\ eval.site.dimension = "outcome" /\ eval.term = 5 =>
           eval.out = Label("Fatal")
    /\ eval.site.dimension = "sex" /\ eval.term = 1 =>
           eval.out = Label("Male")

\* C12 as stated: in every aggregation over a coded dimension a code of the
\* mapping is replaced by its label and any other code is passed through
\* unchanged as the raw term, in every tool that decodes the dimension.
C12_UnmappedPassedThrough ==
    Decoded =>
        IF eval.term \in CodesOf(eval.site.dimension)
        THEN MappedGivesLabel
        ELSE eval.out = Raw(eval.term)

\* C12: in every aggregation over a coded dimension a code of the mapping is
\* replaced by its label; any other code is passed through unchanged by
\* get_event_counts for outcome and reporter type, comes out as "Code" with
\* the term in get_safety_summary, and comes out as "Unknown" for sex.
C12_CodesDecoded ==
    Decoded =>
        IF eval.term \in CodesOf(eval.site.dimension)
        THEN MappedGivesLabel
        ELSE CASE eval.site.dimension = "sex" ->
                      eval.out = Label("Unknown")
               [] eval.site.tool = "get_safety_summary" ->
                      eval.out = CodeOf(eval.term)
               [] OTHER -> eval.out = Raw(eval.term)

\* An outcome code without a label went through get_event_counts unchanged.
C12_Witness ==
    /\ Decoded
    /\ eval.site = [tool |-> "get_event_counts", dimension |-> "outcome"]
    /\ eval.term = 7
    /\ eval.out = Raw(7)

\* A search expression has been built.
Searched == eval.op = "search"

\* The double quotes of an expression that no backslash precedes.
OpenQuotes(expr) ==
    { i \in 1..Len(expr) :
        expr[i] = QUOTE /\ (i = 1 \/ expr[i - 1] # BACKSLASH) }

Given(args, name) == name \in DOMAIN args /\ TruthyText(args[name])

\* The quoted clauses that the handler at a site writes.
QuotedClauses(site, args) ==
    CASE site = "search_adverse_events" ->
             3 + (IF Given(args, "reaction") THEN 1 ELSE 0)
      [] site = "get_recall_info" ->
             3 + (IF Given(args, "classification") THEN 1 ELSE 0)
               + (IF Given(args, "status") THEN 1 ELSE 0)
      [] site = "get_event_counts" -> 3
      [] site \in {"get_drug_label_info", "get_safety_summary_recalls"} -> 2
      [] OTHER -> 1

\* C13: in every search expression the only double quotes that no backslash
\* precedes are the two that delimit each quoted clause, so that no double
\* quote of a user-supplied text is left unescaped and closes its clause.
C13_QuotesEscaped ==
    Searched =>
        Cardinality(OpenQuotes(eval.out)) =
            2 * QuotedClauses(eval.site, eval.args)

\* C14: a get_data_info call without arguments always ends in a result that
\* has the disclaimer and the limitations, whatever the upstream answers, and
\* it needs no GET for it.
C14_DataInfoNeedsNoUpstream ==
    \A c \in Slots :
        calls[c].name = "get_data_info" /\ calls[c].args = NoArgs =>
            /\ calls[c].sent = <<>>
            /\ Finished(c) =>
                   /\ Succeeded(c)
                   /\ {"disclaimer", "limitations"} \subseteq
                          calls[c].response[1].keys

\* The last answer to a list-tools request.
Listed == eval.op = "tools/list"

\* The answer has 17 descriptors with pairwise distinct names, each read-only,
\* not destructive and open-world.
CatalogShape ==
    Listed =>
        /\ Len(eval.tools) = 17
        /\ \A i, j \in DOMAIN eval.tools :
               eval.tools[i].name = eval.tools[j].name => i = j
        /\ \A i \in DOMAIN eval.tools :
               /\ eval.tools[i].readOnlyHint
               /\ ~eval.tools[i].destructiveHint
               /\ eval.tools[i].openWorldHint

\* C15: every list-tools response, before, between and after tool calls, is
\* the same catalog of exactly 17 descriptors with pairwise distinct names and
\* the three annotations readOnlyHint, not destructiveHint, openWorldHint.
C15_CatalogFixed ==
    /\ [] CatalogShape
    /\ [][Listed /\ eval'.op = "tools/list" => eval'.tools = eval.tools]_vars

\* The catalog was listed, a tool call ran to its end, and the answer to the
\* list request that came before is still the catalog.
C15_Witness ==
    /\ Listed
    /\ Finished(1)
    /\ calls[1].name = "get_data_info"

\* The calls before the i-th that were admitted for the same client inside the
\* window that ends at the i-th call.
AdmittedBefore(i) ==
    { j \in 1..(i - 1) :
        /\ checks[j].clientId = checks[i].clientId
        /\ checks[j].result
        /\ checks[j].at > checks[i].at - WINDOW }

\* The calls admitted for a client in the window of 60 seconds that ends at t.
AdmittedIn(clientId, t) ==
    { j \in DOMAIN checks :
        /\ checks[j].clientId = clientId
        /\ checks[j].result
        /\ checks[j].at > t - WINDOW
        /\ checks[j].at <= t }

\* C16: for each client key at most maxRequests calls are admitted in any
\* window of 60 seconds; a call is rejected exactly when maxRequests calls of
\* the same key were admitted inside the window before it, so rejected calls
\* and calls of other keys do not count.
C16_RollingWindow ==
    /\ \A clientId \in ClientIds : \A t \in 0..MaxClock :
           Cardinality(AdmittedIn(clientId, t)) <= limiter.maxRequests
    /\ \A i \in DOMAIN checks :
           checks[i].result <=>
               Cardinality(AdmittedBefore(i)) < limiter.maxRequests

\* With limit 1: client1 is admitted, rejected in the same window while
\* client2 is admitted, and admitted again once the window has passed.
C16_Witness ==
    /\ limiter.maxRequests = 1
    /\ Len(checks) = 4
    /\ checks[1] = [clientId |-> "client1", at |-> 0, result |-> TRUE]
    /\ checks[2] = [clientId |-> "client1", at |-> 2, result |-> FALSE]
    /\ checks[3] = [clientId |-> "client2", at |-> 2, result |-> TRUE]
    /\ checks[4] = [clientId |-> "client1", at |-> 3, result |-> TRUE]

\* The GETs issued so far by the calls in flight.
IssuedGets ==
    UNION {{calls[c].sent[i] : i \in 1..Len(calls[c].sent)} : c \in Slots}

\* C17: over any interleaving of tool calls the secret store is consulted at
\* most once; once a key, possibly the empty string, is cached no later step
\* changes it or consults the secret store again; and with the empty key
\* cached every GET is issued without an api_key parameter.
C17_KeyResolvedOnce ==
    /\ [](lookups <= 1)
    /\ [][OPENFDA_API_KEY # Undefined =>
              /\ OPENFDA_API_KEY' = OPENFDA_API_KEY
              /\ lookups' = lookups]_vars
    /\ [](OPENFDA_API_KEY = Some("") =>
              \A g \in IssuedGets : g.api_key = Undefined)

\* A removal timer is pending for the key.
TimerPending(key) == \E tm \in timers : tm.token = key

\* C18: every entry of the HTTP session map and every entry of the auth-token
\* cache has had a one-shot removal timer scheduled at its creation, which is
\* what removes it in the end.
C18_EveryEntryHasTimer ==
    /\ \A s \in SessionIds : transports[s] # Undefined => TimerPending(s)
    /\ \A t \in Tokens : sessions[t] # Undefined => TimerPending(t)

Registered(s) == transports[s] # Undefined

\* Request r has just created the transport of session s.
Creates(r, s) ==
    /\ reqs[r].pc # "connect"
    /\ reqs'[r].pc = "connect"
    /\ reqs'[r].path = MCP_PATH
    /\ reqs'[r].sessionId = Some(s)

\* C19: an entry of the session map is created only by an /mcp request for a
\* session id that has no entry; while the entry exists no request puts a
\* second transport in its place; and the entry goes exactly when its
\* transport closes, so that no closed transport stays in the map.
C19_EntryLifecycle ==
    /\ [][\A s \in SessionIds :
              /\ ~Registered(s) /\ transports'[s] # Undefined =>
                     \E r \in Requests : Creates(r, s)
              /\ Registered(s) /\ transports'[s] # Undefined =>
                     /\ transports[s][1].ready => transports'[s][1].ready
                     /\ ~\E r \in Requests : Creates(r, s)
              /\ Registered(s) /\ transports'[s] = Undefined =>
                     reqs' = reqs]_vars
    /\ [](\A s \in SessionIds : Registered(s) => ~transports[s][1].closed)

\* Request r is in flight and has written the auth-cache entry of its token:
\* the gateway accepted the token and named a user.
WroteAuthCache(r) ==
    /\ reqs[r].pc \notin {"idle", "gateway"}
    /\ reqs[r].gateway # Undefined
    /\ validateTokenWithGateway(reqs[r].gateway[1]).authenticated
    /\ TruthyStr(validateTokenWithGateway(reqs[r].gateway[1]).userId)

\* Request r is in flight and has written the session-map entry of its
\* session id, whose transport it is connecting.
WroteSessionMap(r) == reqs[r].pc = "connect"

\* C20: no two requests in flight at the same time have written the same key
\* of the auth-token cache or the same key of the session map.
C20_SingleWriterPerKey ==
    \A r1, r2 \in Requests :
        r1 # r2 =>
            /\ ~(/\ WroteAuthCache(r1)
                 /\ WroteAuthCache(r2)
                 /\ reqs[r1].token = reqs[r2].token)
            /\ ~(/\ WroteSessionMap(r1)
                 /\ WroteSessionMap(r2)
                 /\ reqs[r1].sessionId = reqs[r2].sessionId)

\* The i-th GET of the call went to the adverse-event endpoint and failed:
\* fetch rejected or the envelope had an error object.
FaersFailed(c, i) ==
    /\ i \in DOMAIN calls[c].resps
    /\ calls[c].sent[i].baseUrl = OPENFDA_FAERS_URL
    /\ calls[c].resps[i].kind \in {"error", "fail"}

\* C21: every response a call has received answers one GET of its own, so no
\* GET is repeated; and once a GET to the adverse-event endpoint has failed
\* the call has ended in an error without issuing another GET.
C21_OneGetNoRetry ==
    \A c \in Slots :
        /\ Len(calls[c].resps) <= Len(calls[c].sent)
        /\ Len(calls[c].sent) <= Len(calls[c].resps) + 1
        /\ \A i \in DOMAIN calls[c].resps :
               FaersFailed(c, i) =>
                   /\ Failed(c)
                   /\ Len(calls[c].sent) = i
                   /\ Len(calls[c].resps) = i

\* The request for the first of two drugs failed and the comparison ended in
\* an error with that one GET.
C21_Witness ==
    \E c \in Slots :
        /\ calls[c].name = "compare_safety_profiles"
        /\ calls[c].args.drug_names # Undefined
        /\ Len(calls[c].args.drug_names[1]) = 2
        /\ FaersFailed(c, 1)
        /\ Failed(c)
        /\ Len(calls[c].sent) = 1

\* The tools that issue several GETs for one drug.
MultiGetTools ==
    {"compare_label_to_reports", "get_pediatric_safety",
     "get_geriatric_safety", "get_safety_summary"}

\* A call of one of them whose arguments passed validation.
MultiGetCall(c) ==
    /\ calls[c].name \in MultiGetTools
    /\ validateInput(calls[c].args.drug_name) = Undefined

\* A GET is started only when every earlier GET of the call has been answered.
OneAtATime(c) ==
    IF calls[c].pc = "fetch"
    THEN Len(calls[c].sent) = Len(calls[c].resps) + 1
    ELSE Len(calls[c].sent) = Len(calls[c].resps)

Flag(c, name) == IF NotFalse(calls[c].args[name]) THEN 1 ELSE 0

\* The GETs of a call that runs to a result.
GetsOf(c) ==
    CASE calls[c].name = "compare_label_to_reports" -> 2
      [] calls[c].name \in {"get_pediatric_safety", "get_geriatric_safety"} ->
             4 + 2 * Flag(c, "include_adult_comparison")
      [] calls[c].name = "get_safety_summary" ->
             5 + Flag(c, "include_label_warnings") + Flag(c, "include_recalls")

\* C22 as stated: one invocation of the four tools issues between two and
\* five GETs, one after another.
C22_TwoToFiveGets ==
    \A c \in Slots :
        MultiGetCall(c) =>
            /\ OneAtATime(c)
            /\ Finished(c) => Len(calls[c].sent) \in 2..5

\* C22: the four tools issue their GETs one after another, and an invocation
\* that ends in a result has issued between two and seven: two for the label
\* comparison, four or with the adult comparison six for an age group, five
\* to seven for the summary.
C22_SequentialGets ==
    \A c \in Slots :
        MultiGetCall(c) =>
            /\ OneAtATime(c)
            /\ Len(calls[c].sent) <= 7
            /\ Succeeded(c) =>
                   /\ Len(calls[c].sent) = GetsOf(c)
                   /\ Len(calls[c].sent) \in 2..7

\* A safety summary with label warnings and recalls ended in a result after
\* seven GETs.
C22_Witness ==
    \E c \in Slots :
        /\ calls[c].name = "get_safety_summary"
        /\ Succeeded(c)
        /\ Len(calls[c].sent) = 7

\* The tools whose limit parameter is documented with a maximum of 100.
LimitedTools == {"search_adverse_events", "get_event_counts"}

\* C23: whatever limit the caller supplies to search_adverse_events or
\* get_event_counts, above the maximum, zero or negative, the call is not
\* rejected for it and every GET it issues carries a limit from 1 to 100.
C23_LimitCapped ==
    \A c \in Slots :
        calls[c].name \in LimitedTools =>
            /\ \A i \in DOMAIN calls[c].sent :
                   /\ calls[c].sent[i].limit # Undefined
                   /\ calls[c].sent[i].limit[1] \in 1..100
            /\ Threw(c) /\ calls[c].sent = <<>> =>
                   ~Includes(LowerWords(Message(c)), <<"limit">>)

\* A count response has been bucketed.
Bucketed == eval.op = "trends"

\* The items of the response that have a date.
Dated == {i \in DOMAIN eval.results : eval.results[i].time # Undefined}

\* The label the bucket of a date has to have: the year, the year and the
\* quarter n with 3(n - 1) < month <= 3n, or the year and the month.
BucketLabel(granularity, d) ==
    CASE granularity = "year" -> <<d.year>>
      [] granularity = "month" -> <<d.year, "-", d.month>>
      [] OTHER -> <<d.year, "-Q",
                    CHOOSE n \in 1..4 : 3 * (n - 1) < d.month /\ d.month <= 3 * n>>

BucketOfItem(i) == BucketLabel(eval.granularity, eval.results[i].time[1])

RECURSIVE SumCounts(_)
SumCounts(I) ==
    IF I = {} THEN 0
    ELSE LET i == CHOOSE j \in I : TRUE
         IN  eval.results[i].count + SumCounts(I \ {i})

\* C24: the trends of get_reporting_trends have one entry for each distinct
\* bucket (year, quarter ceil(MM/3) also by default, or month) of the dated
\* daily counts, in strictly ascending order of label, each with the sum of
\* the daily counts of its bucket.
C24_TrendBuckets ==
    Bucketed =>
        /\ {eval.out[k].period : k \in DOMAIN eval.out} =
               {BucketOfItem(i) : i \in Dated}
        /\ Len(eval.out) = Cardinality({BucketOfItem(i) : i \in Dated})
        /\ \A k, l \in DOMAIN eval.out :
               k < l => LocaleLess(eval.out[k].period, eval.out[l].period)
        /\ \A k \in DOMAIN eval.out :
               eval.out[k].count =
                   SumCounts({i \in Dated : BucketOfItem(i) = eval.out[k].period})

\* By quarter, two days of the first quarter of 2024 given after one of the
\* second and one of the last of 2023 came out as three buckets in order.
C24_Witness ==
    /\ Bucketed
    /\ eval.granularity = "quarter"
    /\ Len(eval.results) = 3
    /\ eval.results[1].time = Some(DateOf(2024, 4))
    /\ eval.results[2].time = Some(DateOf(2024, 3))
    /\ eval.results[3].time = Some(DateOf(2023, 12))
    /\ Len(eval.out) = 3
    /\ eval.out[1].period = <<2023, "-Q", 4>>
    /\ eval.out[2].period = <<2024, "-Q", 1>>
    /\ eval.out[3].period = <<2024, "-Q", 2>>

\* An age-group handler has computed its ratio and percentage.
AgeGroupFormatted == eval.op = "age_group"

\* The total the ratio is divided by.
Denominator == IF eval.tool = "get_pediatric_safety" THEN eval.total ELSE eval.adult

Numerator == IF eval.tool = "get_pediatric_safety" THEN eval.adult ELSE eval.total

Abs(x) == IF x < 0 THEN 0 - x ELSE x

\* No division by zero, in the age-group handlers and in the comparison.
NoDivisionByZero ==
    /\ AgeGroupFormatted =>
           /\ 0 \notin eval.report_ratio.divisors
           /\ 0 \notin eval.serious_percentage.divisors
           /\ eval.serious_percentage.value # Undefined
    /\ eval.op = "compare" =>
           /\ 0 \notin eval.out.divisors
           /\ ~eval.out.message => eval.out.signal_percentage # Undefined

\* "N/A" whenever the denominator total is zero, and a number on both sides
\* otherwise.
NotAvailableOnZero ==
    AgeGroupFormatted =>
        /\ Denominator = 0 => eval.report_ratio.text = "N/A"
        /\ eval.report_ratio.text # "N/A" =>
               /\ eval.report_ratio.left100 # Undefined
               /\ eval.report_ratio.right100 # Undefined

\* C25 as stated: report_ratio is a ratio of rounded integers in both
\* comparisons, "N/A" whenever the denominator is zero, and nothing is
\* divided by zero.
C25_RatioOfIntegers ==
    /\ NoDivisionByZero
    /\ NotAvailableOnZero
    /\ AgeGroupFormatted /\ eval.report_ratio.text # "N/A" =>
           /\ eval.report_ratio.left100[1] % 100 = 0
           /\ eval.report_ratio.right100[1] % 100 = 0

\* C25: nothing is divided by zero and report_ratio is "N/A" whenever a total
\* is zero; otherwise the pediatric ratio is 1:N with N the integer nearest
\* to adult/pediatric, and the geriatric ratio is R:1 with R the number of
\* hundredths nearest to geriatric/adult.
C25_Ratios ==
    /\ NoDivisionByZero
    /\ NotAvailableOnZero
    /\ AgeGroupFormatted /\ Numerator = 0 => eval.report_ratio.text = "N/A"
    /\ AgeGroupFormatted /\ eval.report_ratio.text # "N/A" =>
           IF eval.tool = "get_pediatric_safety"
           THEN /\ eval.report_ratio.left100[1] = 100
                /\ eval.report_ratio.right100[1] % 100 = 0
                /\ 2 * Abs(eval.report_ratio.right100[1] * eval.total
                           - 100 * eval.adult) <= 100 * eval.total
           ELSE /\ eval.report_ratio.right100[1] = 100
                /\ 2 * Abs(eval.report_ratio.left100[1] * eval.adult
                           - 100 * eval.total) <= eval.adult

\* One geriatric report against three of younger adults came out as 0.33:1,
\* and in another evaluation the pediatric total was zero.
C25_Witness ==
    /\ AgeGroupFormatted
    /\ eval.tool = "get_geriatric_safety"
    /\ eval.total = 1 /\ eval.adult = 3
    /\ eval.report_ratio.left100 = Some(33)
    /\ eval.report_ratio.right100 = Some(100)

\* compare_label_to_reports has produced a comparison, not the "no reports"
\* message.
Compared == eval.op = "compare" /\ ~eval.out.message

Listed_In(list, reaction) == \E k \in DOMAIN list : list[k].reaction = reaction

\* C30: in every comparison each analysed reaction is in exactly one of
\* labeled_reactions and potential_signals, the two counts add up to
\* total_reactions_analyzed, which is at least 1, signal_percentage is an
\* integer from 0 to 100, and with no reaction taken from a label every
\* reaction is a potential signal.
C30_ComparisonPartition ==
    Compared =>
        /\ \A i \in DOMAIN eval.results :
               Listed_In(eval.out.labeled_reactions, eval.results[i])
                   # Listed_In(eval.out.potential_signals, eval.results[i])
        /\ eval.out.labeled_reactions_found + eval.out.potential_signals_found
               = eval.out.total_reactions_analyzed
        /\ eval.out.labeled_reactions_found = Len(eval.out.labeled_reactions)
        /\ eval.out.potential_signals_found = Len(eval.out.potential_signals)
        /\ eval.out.total_reactions_analyzed = Len(eval.results)
        /\ eval.out.total_reactions_analyzed >= 1
        /\ eval.out.signal_percentage # Undefined
        /\ eval.out.signal_percentage[1] \in 0..100
        /\ eval.label.labelAdverseReactions = <<>> =>
               /\ eval.out.labeled_reactions_found = 0
               /\ eval.out.potential_signals_found = Len(eval.results)

\* With nausea on the label, of the reported severe nausea and rash the
\* first is labeled and the second a potential signal: 50 percent.
C30_Witness ==
    /\ Compared
    /\ eval.label.labelAdverseReactions = << <<"Nausea">> >>
    /\ eval.results = << <<"SEVERE", "NAUSEA">>, <<"RASH">> >>
    /\ eval.out.labeled_reactions_found = 1
    /\ eval.out.potential_signals_found = 1
    /\ eval.out.signal_percentage = Some(50)

\* The router took its default clause for the call.
UnknownToolBranch(c) ==
    /\ calls[c].thrown # Undefined
    /\ calls[c].thrown[1].code = "MethodNotFound"

\* C29: a call is dispatched to a handler, and does not take the router's
\* unknown-tool clause, exactly when its name is the name of a descriptor of
\* the catalog.
C29_RegistryMatchesRouter ==
    \A c \in Slots :
        Started(c) => (~UnknownToolBranch(c) <=> calls[c].name \in ToolNames)

\* The last catalog entry has been dispatched: its handler has issued a GET
\* and has answered.
C29_Witness ==
    \E c \in Slots :
        /\ calls[c].name = "get_pregnancy_lactation_info"
        /\ Succeeded(c)
        /\ Len(calls[c].sent) > 0

\* In this step request r is passed to transport.handleRequest.
PassedToTransport(r) == reqs[r].pc # "handle" /\ reqs'[r].pc = "handle"

\* The transport registered under the session id of request r after the step
\* has been connected to its MCP server.
ConnectedAfter(r) ==
    LET sessionId == reqs'[r].sessionId[1]
    IN  /\ transports'[sessionId] # Undefined
        /\ transports'[sessionId][1].ready

\* C28: a request is passed to a session transport only once server.connect
\* to that transport has completed, also when another request with the same
\* new session id is still awaiting the connect.
C28_HandleAfterConnect ==
    [][\A r \in Requests : PassedToTransport(r) => ConnectedAfter(r)]_vars

\* In this step authenticateRequest returns to request r, authenticated.
Authenticates(r) ==
    /\ reqs[r].auth = Undefined
    /\ reqs'[r].auth # Undefined
    /\ reqs'[r].auth[1].authenticated

\* In this step the gateway answers the validation request r is waiting for.
GatewayAnswers(r) == reqs[r].pc = "gateway" /\ reqs'[r].gateway # Undefined

GatewayAccepts(r) == GatewayAnswers(r) /\ reqs'[r].gateway[1].kind = "ok"

\* Request r is answered from the cache entry of its token, and the entry
\* has not expired: it was written at most EXPIRES_IN ago.
ServedFromLiveEntry(r) ==
    LET token == reqs'[r].token[1]
    IN  /\ sessions[token] # Undefined
        /\ reqs'[r].session = sessions[token]
        /\ now <= sessions[token][1].expiresAt
        /\ now - (sessions[token][1].expiresAt - EXPIRES_IN) \in 0..EXPIRES_IN

\* In this step an entry is written under the token.
Cached(token) == sessions'[token] # Undefined /\ sessions'[token] # sessions[token]

\* The entry written is the one of a validation the gateway accepts in this
\* step for this token; it expires EXPIRES_IN from now.
CachedOnAcceptance(token) ==
    /\ sessions'[token][1].expiresAt = now + EXPIRES_IN
    /\ \E r \in Requests : GatewayAccepts(r) /\ reqs[r].token = Some(token)

\* C26: with OAuth enabled a request is authenticated only when the gateway
\* accepts its token in this request or a cache entry of its token, written
\* on an acceptance at most EXPIRES_IN ago, is found; entries are written on
\* acceptance only, so a failed validation caches nothing, and an entry past
\* its expiry time authenticates nobody even while its timer is pending.
C26_AuthenticatedByGateway ==
    [][/\ \A r \in Requests :
              Authenticates(r) => GatewayAccepts(r) \/ ServedFromLiveEntry(r)
       /\ \A token \in Tokens : Cached(token) => CachedOnAcceptance(token)
       /\ \A r \in Requests :
              GatewayAnswers(r) /\ ~GatewayAccepts(r) => sessions' = sessions]_vars

\* One request was served from the cache, and later a request with the same
\* token, finding the entry expired while its removal timer is still pending,
\* is sent to the gateway.
C26_Witness ==
    \E r, q \in Requests :
        /\ reqs[r].pc = "gateway"
        /\ \E tm \in timers : tm.token = reqs[r].token[1] /\ tm.at < now
        /\ reqs[q].token = reqs[r].token
        /\ reqs[q].session # Undefined
        /\ reqs[q].auth[1].authenticated

\* C27: an entry of the auth cache is removed only at or after its own
\* expiry time, so the timer of an earlier entry of the same token does not
\* remove a later one.
C27_EntryOutlivesEarlierTimer ==
    [][\A token \in Tokens :
          sessions[token] # Undefined /\ sessions'[token] = Undefined
              => now >= sessions[token][1].expiresAt]_vars

====
